---- MODULE Spec2Model ----
(***************************************************************************)
(* Plan validation (core/validator.py) and the DAG parallel controller     *)
(* (core/dag.py) of the personal-assistant demo.                           *)
(*                                                                         *)
(* Several specifications share the module:                                *)
(*   SpecV  - validate_plan applied to plans drawn from a bounded set;     *)
(*   Spec   - DAGParallelController: load_plan followed by execute_plan,   *)
(*            split at the points where the coroutine suspends;            *)
(*   SpecB  - one CircuitBreaker under a clock (core/circuit_breaker.py);  *)
(*   SpecS  - AgentController._execute_step_with_retry with the breaker    *)
(*            registry and the result cache (core/controller.py);          *)
(*   SpecL  - EnhancedPlannerExecutorAgent._execute_step_with_retry with   *)
(*            the idempotency keys of ProductionToolRegistry (legacy/);    *)
(*   SpecE  - validate_executor_step applied to a normalized plan, listed  *)
(*            completed and executing ids, and an executor message;        *)
(*   SpecX  - the sequential executor of the pipeline tests;               *)
(*   SpecF  - execute_plan on fixed plans, with fairness of the coroutine  *)
(*            and of every tool call;                                      *)
(*   SpecD  - execute_plan in a process whose breaker registry already     *)
(*            holds outcomes, with every result document a tool can give;  *)
(*   SpecR  - PersonalAssistantAgent: execute_request over the steps of a  *)
(*            planned request, and reset_state (core/agent.py);            *)
(*   SpecW  - the CircuitBreaker of SpecB over more than one window.       *)
(*   SpecT  - the retry loop of one step execution, scheduled fairly.     *)
(*   SpecK  - the completed idempotency keys of ProductionToolRegistry    *)
(*            as they grow past the ceiling of mark_operation_complete.    *)
(*   SpecC  - two coroutines executing the same step on the legacy        *)
(*            executor, interleaved at their awaits.                        *)
(*   SpecP  - the result caches of ToolRegistry (core/registry.py) and of *)
(*            ProductionToolRegistry under a clock.                         *)
(***************************************************************************)
EXTENDS Integers, Sequences, FiniteSets, TLC

VARIABLES
    plan,            \* SpecV: the plan array handed to validate_plan
    vresult,         \* SpecV: the ValidationResult returned
    vphase,          \* SpecV: "submitted" | "validated" ("off" under Spec)
    concurrency_max, \* DAGParallelController.concurrency_max
    nodes,           \* DAGParallelController.nodes: id -> DAGNode
    ready_queue,     \* DAGParallelController.ready_queue, in priority order
    inflight,        \* keys of DAGParallelController.inflight
    completed,       \* DAGParallelController.completed
    failed,          \* DAGParallelController.failed
    task,            \* state of the asyncio task of each node id
    cancelled,       \* node ids whose task received cancel()
    results,         \* execute_plan's local list `results` (node ids)
    expired,         \* time.time() >= deadline
    pc,              \* position of load_plan / execute_plan
    status,          \* execution_summary["status"]
    loads,           \* number of load_plan calls made on the controller
    orphans,         \* ids of running tasks whose plan was replaced by a load
    last_load,       \* how the last load_plan ended: "ok" | "rejected" | "none"
    now,             \* SpecB: time.time(), in seconds
    buckets,         \* CircuitBreaker.buckets
    state,           \* CircuitBreaker.state
    open_since,      \* CircuitBreaker.open_since
    allowed,         \* what the last allow() returned: "true" | "false" | "none"
    probes,          \* allow() calls answered True since the last on_result
                     \* while the breaker was OPEN or HALF_OPEN
    outcome,         \* last on_result argument: "success" | "failure" | "none"
    records,         \* number of on_result calls made
    spc,             \* SpecS: position in _execute_step_with_retry
    tool_name,       \* current_step["tool"]
    tool_input,      \* current_step["input"], as a sequence of key/value pairs
    attempt,         \* loop variable of the retry loop
    step_result,     \* what the last step execution returned
    pure_cache,      \* ToolRegistry._pure_cache: cache key -> cached result
    breakers,        \* ToolCircuitBreakerRegistry.breakers: tool -> breaker
    invocations,     \* _execute_tool calls made by the current step execution
    recorded,        \* record_result calls made by the current step execution
    executed,        \* pure tools: StepKey -> payload of the last success
    prior,           \* executed[key] when the current step execution began
    steps,           \* number of step executions started
    user_request,    \* SpecL: user_request of the current step execution
    step_number,     \* SpecL: step_number of the current step execution
    idempotency_keys,\* ProductionToolRegistry._idempotency_keys
    envelope,        \* SpecL: what the last tool invocation returned
    current_plan,    \* SpecE/SpecX: plan, completed_ids, executing_ids
    step_json,       \* the executor message last handed to validate_executor_step
    eresult,         \* the ValidationResult it returned
    epc,             \* position of the caller of validate_executor_step
    agent_registry,  \* SpecR: which registry PersonalAssistantAgent.circuit_breakers
                     \* is: 0 the one handed to the controller, k the k-th new one
    rpc,             \* SpecR: position of execute_request
    step_index,      \* SpecR: steps of the plan the loop of execute_request began
    request_results, \* SpecR: the list `results` of execute_request
    start_time,      \* SpecR: start_time of execute_request
    registry_class,  \* SpecP: "ToolRegistry" | "ProductionToolRegistry"
    read_cache,      \* _read_cache: cache key -> entry
    cache_timestamps,\* ProductionToolRegistry._cache_timestamps
    cache_op,        \* SpecP: the last registry call: "get" | "put" | "none"
    cache_ret        \* SpecP: what the last get_cached_result returned

vars == <<plan, vresult, vphase, concurrency_max, nodes, ready_queue, inflight,
          completed, failed, task, cancelled, results, expired, pc, status,
          loads, orphans, last_load,
          now, buckets, state, open_since, allowed, probes, outcome,
          records, spc, tool_name, tool_input, attempt, step_result,
          pure_cache, breakers, invocations, recorded, executed, prior, steps,
          user_request, step_number, idempotency_keys, envelope,
          current_plan, step_json, eresult, epc,
          agent_registry, rpc, step_index, request_results, start_time,
          registry_class, read_cache, cache_timestamps, cache_op, cache_ret>>

pvars == <<registry_class, read_cache, cache_timestamps, cache_op, cache_ret>>

\* what stands still with the validator's variables: the caches of SpecP
vvars == <<plan, vresult, vphase, pvars>>
dvars == <<concurrency_max, nodes, ready_queue, inflight, completed, failed,
           task, cancelled, results, expired, pc, status>>
rvars == <<loads, orphans, last_load>>
bvars == <<now, buckets, state, open_since, allowed, probes, outcome, records>>

cvars == <<buckets, state, open_since, allowed, probes, outcome, records>>
svars == <<spc, tool_name, tool_input, attempt, step_result, pure_cache,
           breakers, invocations, recorded, executed, prior, steps>>

lvars == <<user_request, step_number, idempotency_keys, envelope>>

evars == <<current_plan, step_json, eresult, epc>>

avars == <<agent_registry, rpc, step_index, request_results, start_time>>

\* what the actions of SpecV and Spec leave alone besides vvars and dvars
xvars == <<bvars, svars, lvars, evars, avars, pvars>>

(***************************************************************************)
(* Bounds of the model.                                                    *)
(***************************************************************************)
MaxNodes == 3        \* longest plan array drawn
MaxEdges == 2        \* most `after` entries in one plan
MaxLoads == 2        \* most load_plan calls made on one controller
MaxRecords == 6      \* most on_result calls made on the breaker
MaxTime == 25        \* the clock stops advancing here (seconds)
MaxProbes == 2       \* allow() is not called again after this many probes
MaxSteps == 4        \* most step executions started on the controller
MaxStepTime == 10    \* the clock of the step executions stops here (seconds)
MaxLegacySteps == 3  \* most step executions started on the legacy executor
MaxMarks == 2        \* most ids a caller lists as completed or executing
MaxRequestTime == 30 \* SpecR: latest time.time() reached
MaxWindowTime == 72  \* SpecW: latest time.time() reached
MaxKeyMarks == 1002  \* SpecK: most idempotency keys marked complete
MaxCacheTime == 4    \* SpecP: latest time.time() reached
MaxResets == 1       \* SpecR: reset_state calls made
MaxRequestSteps == 2 \* SpecR: plan steps of all the requests made

(***************************************************************************)
(* Program constants.                                                      *)
(***************************************************************************)
MaxItems == 24               \* planner schema: maxItems
DefaultConcurrencyMax == 3   \* DAGParallelController.__init__ default

\* Node ids, listed in Python string order; all match _ID_PATTERN.
IdOrder == <<"s1", "s2", "s3">>
Ids == {IdOrder[i] : i \in 1..Len(IdOrder)}
IdRank(x) == CHOOSE i \in 1..Len(IdOrder) : IdOrder[i] = x

\* Tool names, listed in Python string order.
ToolOrder == <<"add_task", "calculate_percentage", "foo_tool", "list_tasks">>
ToolRank(t) == CHOOSE i \in 1..Len(ToolOrder) : ToolOrder[i] = t

\* The tool registry document: tool name -> metadata.
registry_data ==
    [t \in {"add_task", "calculate_percentage", "list_tasks"} |->
        CASE t = "add_task" -> [purity |-> "impure", parallel_safe |-> FALSE]
          [] t = "list_tasks" -> [purity |-> "read_only", parallel_safe |-> TRUE]
          [] OTHER -> [purity |-> "pure", parallel_safe |-> TRUE]]

\* Tool names a planner may put in a node; foo_tool is not registered.
PlannerTools == {"add_task", "calculate_percentage", "foo_tool"}

E_SCHEMA == "E_SCHEMA"
E_CYCLE == "E_CYCLE"
E_STEP_ORDER == "E_STEP_ORDER"
E_TOOL_UNKNOWN == "E_TOOL_UNKNOWN"
E_DUP_ID == "E_DUP_ID"
E_REF_UNKNOWN == "E_REF_UNKNOWN"

WHITE == 0
GRAY == 1
BLACK == 2

\* BreakerConfig of the circuit-breaker demo; failure_threshold = 0.6 is kept
\* as the fraction failure_threshold_num / failure_threshold_den.
window_seconds == 60
cfg_buckets == 5
min_requests == 5
failure_threshold_num == 6
failure_threshold_den == 10
cooldown_seconds == 10

max_retries == 2      \* AgentController.__init__: self.max_retries
overall_deadline == 20  \* AgentController.__init__: self.overall_deadline

E_TIMEOUT == "E_TIMEOUT"
E_RATE_LIMIT == "E_RATE_LIMIT"
E_TOOL_FAILED == "E_TOOL_FAILED"
E_CIRCUIT_OPEN == "E_CIRCUIT_OPEN"

MaxIdempotencyKeys == 1000   \* mark_operation_complete: prune above this
PrunedIdempotencyKeys == 500 \* mark_operation_complete: keys dropped by a prune

CLOSED == "closed"
OPEN == "open"
HALF_OPEN == "half_open"

(***************************************************************************)
(* Sequence helpers.                                                       *)
(***************************************************************************)
Range(s) == {s[i] : i \in 1..Len(s)}

IndexOf(s, x) == CHOOSE i \in 1..Len(s) : s[i] = x /\ \A j \in 1..(i-1) : s[j] # x

RECURSIVE InsertSorted(_, _)
InsertSorted(s, x) ==
    IF s = <<>> THEN <<x>>
    ELSE IF IdRank(x) < IdRank(Head(s)) THEN <<x>> \o s
    ELSE <<Head(s)>> \o InsertSorted(Tail(s), x)

\* Python sorted() on a list of ids.
RECURSIVE sorted(_)
sorted(s) == IF s = <<>> THEN <<>> ELSE InsertSorted(sorted(Tail(s)), Head(s))

\* A set of ids as a list in ascending order (iteration order of `after`).
RECURSIVE SetToSeq(_)
SetToSeq(S) ==
    IF S = {} THEN <<>>
    ELSE LET m == CHOOSE x \in S : \A y \in S : IdRank(x) <= IdRank(y)
         IN <<m>> \o SetToSeq(S \ {m})

(***************************************************************************)
(* core/validator.py                                                       *)
(***************************************************************************)
\* An error string "CODE: message", kept as its code and the ids it names.
Err(code, nid, dep) == [code |-> code, node |-> nid, ref |-> dep]

NoPlan == <<>>      \* Python None for normalized_plan / topo_order_ids

ValidationResult(valid, errors, normalized_plan, topo_order_ids) ==
    [valid |-> valid, errors |-> errors,
     normalized_plan |-> normalized_plan, topo_order_ids |-> topo_order_ids]

\* schema_validate with the tool enum left out of the planner schema.
schema_validate_no_enum(p, allowed_tools) ==
    IF \/ Len(p) < 1
       \/ Len(p) > MaxItems
       \/ \E i \in 1..Len(p) : p[i].step < 1 \/ p[i].id \notin Ids
    THEN <<Err(E_SCHEMA, "", "")>>
    ELSE <<>>

\* Draft202012Validator(schema).validate: the planner schema with the tool
\* enum taken from the registry; one E_SCHEMA error on any violation.
schema_validate(p, allowed_tools) ==
    IF \/ Len(p) < 1
       \/ Len(p) > MaxItems
       \/ \E i \in 1..Len(p) : \/ p[i].step < 1
                               \/ p[i].tool \notin allowed_tools
                               \/ p[i].id \notin Ids
    THEN <<Err(E_SCHEMA, "", "")>>
    ELSE <<>>

\* ref_errors that looks at the first `after` entry only.
ref_errors_first_only(p, nid, deps) ==
    IF deps = <<>> THEN <<>>
    ELSE IF Head(deps) \notin {p[j].id : j \in 1..Len(p)}
    THEN <<Err(E_REF_UNKNOWN, nid, Head(deps))>> ELSE <<>>

\* for dep in n["after"]: if dep not in [m["id"] for m in nodes]: E_REF_UNKNOWN
RECURSIVE ref_errors(_, _, _)
ref_errors(p, nid, deps) ==
    IF deps = <<>> THEN <<>>
    ELSE (IF Head(deps) \notin {p[j].id : j \in 1..Len(p)}
          THEN <<Err(E_REF_UNKNOWN, nid, Head(deps))>> ELSE <<>>)
         \o ref_errors(p, nid, Tail(deps))

\* the loop of step 2 leaving at the first node that has an error, with the
\* first error of that node
RECURSIVE id_checks_first_error(_, _, _)
id_checks_first_error(p, i, seen) ==
    IF i > Len(p) THEN <<>>
    ELSE LET n == p[i]
             dup == IF n.id \in seen THEN <<Err(E_DUP_ID, n.id, "")>> ELSE <<>>
             unk == IF n.tool \notin DOMAIN registry_data
                    THEN <<Err(E_TOOL_UNKNOWN, n.id, "")>> ELSE <<>>
             here == dup \o unk \o ref_errors(p, n.id, SetToSeq(n.after))
         IN IF here # <<>> THEN <<Head(here)>>
            ELSE id_checks_first_error(p, i + 1, seen \cup {n.id})

\* validate_plan step 2: the loop over the nodes collecting id, tool and
\* reference errors.
RECURSIVE id_checks(_, _, _)
id_checks(p, i, seen) ==
    IF i > Len(p) THEN <<>>
    ELSE LET n == p[i]
             dup == IF n.id \in seen THEN <<Err(E_DUP_ID, n.id, "")>> ELSE <<>>
             unk == IF n.tool \notin DOMAIN registry_data
                    THEN <<Err(E_TOOL_UNKNOWN, n.id, "")>> ELSE <<>>
         IN dup \o unk \o ref_errors(p, n.id, SetToSeq(n.after))
                \o id_checks(p, i + 1, seen \cup {n.id})

\* _build_graph, first loop: graph.setdefault(nid, []) in plan order.
RECURSIVE graph_keys(_, _, _)
graph_keys(p, i, keys) ==
    IF i > Len(p) THEN keys
    ELSE graph_keys(p, i + 1,
                    IF p[i].id \in Range(keys) THEN keys ELSE Append(keys, p[i].id))

\* _build_graph, second loop, the deps of one node: graph[dep].append(nid).
RECURSIVE graph_edges_of(_, _, _)
graph_edges_of(g, nid, deps) ==
    IF deps = <<>> THEN g
    ELSE LET dep == Head(deps)
             k == IF dep \in Range(g.keys) THEN g.keys ELSE Append(g.keys, dep)
         IN graph_edges_of([keys |-> k,
                            adj |-> [g.adj EXCEPT ![dep] = Append(@, nid)]],
                           nid, Tail(deps))

RECURSIVE graph_edges(_, _, _)
graph_edges(p, i, g) ==
    IF i > Len(p) THEN g
    ELSE graph_edges(p, i + 1, graph_edges_of(g, p[i].id, SetToSeq(p[i].after)))

\* _build_graph: dependency -> list of dependents; keys keeps the dict order.
build_graph(p) ==
    graph_edges(p, 1, [keys |-> graph_keys(p, 1, <<>>),
                       adj |-> [x \in Ids |-> <<>>]])

\* _detect_cycles.dfs and its loop over graph[u]; st.cycle is the path the
\* RuntimeError carries (empty while none was raised).
RECURSIVE dfs(_, _, _)
RECURSIVE dfs_loop(_, _, _, _)
dfs(g, u, st) ==
    LET st1 == [st EXCEPT !.color[u] = GRAY, !.stack = Append(@, u)]
        st2 == dfs_loop(g, u, 1, st1)
    IN IF st2.cycle # <<>> THEN st2
       ELSE [st2 EXCEPT !.color[u] = BLACK,
                        !.stack = SubSeq(@, 1, Len(@) - 1)]

dfs_loop(g, u, i, st) ==
    IF st.cycle # <<>> \/ i > Len(g.adj[u]) THEN st
    ELSE LET v == g.adj[u][i]
         IN IF st.color[v] = WHITE THEN dfs_loop(g, u, i + 1, dfs(g, v, st))
            ELSE IF st.color[v] = GRAY
            THEN [st EXCEPT !.cycle =
                     SubSeq(st.stack, IndexOf(st.stack, v), Len(st.stack)) \o <<v>>]
            ELSE dfs_loop(g, u, i + 1, st)

RECURSIVE detect_roots(_, _, _)
detect_roots(g, i, st) ==
    IF st.cycle # <<>> \/ i > Len(g.keys) THEN st
    ELSE detect_roots(g, i + 1,
                      IF st.color[g.keys[i]] = WHITE THEN dfs(g, g.keys[i], st)
                      ELSE st)

\* _detect_cycles that starts the search at the first key only.
detect_cycles_first_root(g) ==
    dfs(g, g.keys[1], [color |-> [x \in Ids |-> WHITE],
                       stack |-> <<>>, cycle |-> <<>>]).cycle

\* _detect_cycles: the cycle path, or <<>> for None.
detect_cycles(g) ==
    detect_roots(g, 1, [color |-> [x \in Ids |-> WHITE],
                        stack |-> <<>>, cycle |-> <<>>]).cycle

\* _topo_sort: the indegree table.
indegree(g) ==
    [u \in Range(g.keys) |->
        Cardinality({<<w, i>> \in Range(g.keys) \X (1..MaxItems) :
                        i <= Len(g.adj[w]) /\ g.adj[w][i] = u})]

\* the relaxation loop without zero.sort() after the append
RECURSIVE topo_relax_unsorted(_, _, _)
topo_relax_unsorted(vs, indeg, zero) ==
    IF vs = <<>> THEN [indeg |-> indeg, zero |-> zero]
    ELSE LET v == Head(vs)
             d == indeg[v] - 1
         IN topo_relax_unsorted(Tail(vs), [indeg EXCEPT ![v] = d],
                                IF d = 0 THEN Append(zero, v) ELSE zero)

\* _topo_sort: for v in sorted(graph[u]): indeg[v] -= 1; on zero append, sort.
RECURSIVE topo_relax(_, _, _)
topo_relax(vs, indeg, zero) ==
    IF vs = <<>> THEN [indeg |-> indeg, zero |-> zero]
    ELSE LET v == Head(vs)
             d == indeg[v] - 1
         IN topo_relax(Tail(vs), [indeg EXCEPT ![v] = d],
                       IF d = 0 THEN sorted(Append(zero, v)) ELSE zero)

\* _topo_sort: while zero: u = zero.pop(0); order.append(u); ...
RECURSIVE topo_loop(_, _, _, _)
topo_loop(g, indeg, zero, order) ==
    IF zero = <<>> THEN order
    ELSE LET u == Head(zero)
             r == topo_relax(sorted(g.adj[u]), indeg, Tail(zero))
         IN topo_loop(g, r.indeg, r.zero, Append(order, u))

\* The initial candidates left in dict order.
topo_zero_unsorted(g, indeg) ==
    SelectSeq(g.keys, LAMBDA u : indeg[u] = 0)

\* The initial candidates: sorted([u for u, d in indeg.items() if d == 0]).
topo_zero(g, indeg) ==
    sorted(SelectSeq(g.keys, LAMBDA u : indeg[u] = 0))

\* _topo_sort without the while loop: the initial candidates only
topo_sort_initial_only(g) ==
    LET indeg == indegree(g)
        order == topo_zero(g, indeg)
    IN IF Len(order) # Len(g.keys) THEN <<>> ELSE order

\* _topo_sort
topo_sort(g) ==
    LET indeg == indegree(g)
        order == topo_loop(g, indeg, topo_zero(g, indeg), <<>>)
    IN IF Len(order) # Len(g.keys) THEN <<>> ELSE order

\* _normalize_steps with enumerate() left at its default start of 0.
normalize_steps_from_zero(p, topo_ids) ==
    [idx \in 1..Len(topo_ids) |->
        LET j == CHOOSE k \in 1..Len(p) : p[k].id = topo_ids[idx]
        IN [p[j] EXCEPT !.step = idx - 1]]

\* _normalize_steps: the nodes in topo order, step renumbered 1..N.
normalize_steps(p, topo_ids) ==
    [idx \in 1..Len(topo_ids) |->
        LET j == CHOOSE k \in 1..Len(p) :
                    /\ p[k].id = topo_ids[idx]
                    /\ \A m \in (k+1)..Len(p) : p[m].id # topo_ids[idx]
        IN [p[j] EXCEPT !.step = idx]]

\* validate_plan
validate_plan(p) ==
    LET tools == DOMAIN registry_data
        schema_errors == schema_validate(p, tools)
        errors == id_checks(p, 1, {})
        graph == build_graph(p)
        cycle == detect_cycles(graph)
        topo_ids == topo_sort(graph)
    IN IF tools = {}
       THEN ValidationResult(FALSE, <<Err(E_SCHEMA, "", "")>>, NoPlan, NoPlan)
       ELSE IF schema_errors # <<>>
       THEN ValidationResult(FALSE, schema_errors, NoPlan, NoPlan)
       ELSE IF errors # <<>>
       THEN ValidationResult(FALSE, errors, NoPlan, NoPlan)
       ELSE IF cycle # <<>>
       THEN ValidationResult(FALSE, <<Err(E_CYCLE, "", "")>>, NoPlan, NoPlan)
       ELSE IF topo_ids = <<>> \/ Len(topo_ids) # Len(p)
       THEN ValidationResult(FALSE, <<Err(E_STEP_ORDER, "", "")>>, NoPlan, NoPlan)
       ELSE ValidationResult(TRUE, <<>>, normalize_steps(p, topo_ids), topo_ids)

(***************************************************************************)
(* The external planner: a plan array is built node by node, up to         *)
(* MaxNodes nodes over Ids with at most MaxEdges `after` entries in total; *)
(* the step hint of a node is its position in the array.                   *)
(***************************************************************************)
PlanNode(id, step, tool, after) ==
    [id |-> id, step |-> step, tool |-> tool, after |-> after]

RECURSIVE EdgeCount(_)
EdgeCount(p) ==
    IF p = <<>> THEN 0 ELSE Cardinality(Head(p).after) + EdgeCount(Tail(p))

PlannerAppend ==
    /\ Len(plan) < MaxNodes
    /\ \E id \in Ids, tool \in PlannerTools, after \in SUBSET Ids :
          /\ EdgeCount(plan) + Cardinality(after) <= MaxEdges
          /\ plan' = Append(plan, PlanNode(id, Len(plan) + 1, tool, after))

(***************************************************************************)
(* SpecV: validate_plan applied to the planner's plan.                     *)
(***************************************************************************)
NoResult == ValidationResult(FALSE, <<>>, NoPlan, NoPlan)

NoNodes == [x \in {} |-> x]

DagOff ==
    /\ concurrency_max = DefaultConcurrencyMax
    /\ nodes = NoNodes
    /\ ready_queue = <<>>
    /\ inflight = {}
    /\ completed = {}
    /\ failed = FALSE
    /\ task = NoNodes
    /\ cancelled = {}
    /\ results = <<>>
    /\ expired = FALSE
    /\ status = "none"
    /\ loads = 0
    /\ orphans = {}
    /\ last_load = "none"

BreakerOff ==
    /\ now = 0
    /\ buckets = <<>>
    /\ state = "off"
    /\ open_since = 0
    /\ allowed = "none"
    /\ probes = 0
    /\ outcome = "none"
    /\ records = 0

NoStepResult == [success |-> FALSE, output |-> "none", code |-> "none",
                 cache_hit |-> FALSE, blocked |-> FALSE]

NoEnvelope == [kind |-> "none", success |-> "absent", error |-> FALSE,
               error_code |-> "none"]

LegacyOff ==
    /\ user_request = "none"
    /\ step_number = 0
    /\ idempotency_keys = {}
    /\ envelope = NoEnvelope

StepOff ==
    /\ spc = "off"
    /\ tool_name = "none"
    /\ tool_input = <<>>
    /\ attempt = 0
    /\ step_result = NoStepResult
    /\ pure_cache = NoNodes
    /\ breakers = NoNodes
    /\ invocations = 0
    /\ recorded = 0
    /\ executed = NoNodes
    /\ prior = "none"
    /\ steps = 0

\* An executor message: the keys in `present` are those the JSON object has.
StepMessage(next_step, remaining_steps, type, tool, input, present) ==
    [next_step |-> next_step, remaining_steps |-> remaining_steps,
     type |-> type, tool |-> tool, input |-> input, present |-> present]

NoMessage == StepMessage(0, 0, "none", "none", {}, {})

ExecutorOff ==
    /\ current_plan = [plan |-> <<>>, completed_ids |-> {}, executing_ids |-> {}]
    /\ step_json = NoMessage
    /\ eresult = NoResult
    /\ epc = "off"

CacheOff ==
    /\ registry_class = "none"
    /\ read_cache = <<>>
    /\ cache_timestamps = <<>>
    /\ cache_op = "none"
    /\ cache_ret = "none"

AgentOff ==
    /\ agent_registry = 0
    /\ rpc = "off"
    /\ step_index = 0
    /\ request_results = <<>>
    /\ start_time = 0

InitV ==
    /\ plan = <<>>
    /\ vresult = NoResult
    /\ vphase = "planning"
    /\ pc = "off"
    /\ DagOff
    /\ ExecutorOff
    /\ BreakerOff
    /\ StepOff
    /\ LegacyOff
    /\ AgentOff
    /\ CacheOff

PlannerV ==
    /\ vphase = "planning"
    /\ PlannerAppend
    /\ UNCHANGED <<xvars, rvars, vresult, vphase, dvars>>

ValidatePlan ==
    /\ vphase = "planning"
    /\ vresult' = validate_plan(plan)
    /\ vphase' = "validated"
    /\ UNCHANGED <<xvars, rvars, plan, dvars>>

NextV == PlannerV \/ ValidatePlan

SpecV == InitV /\ [][NextV]_vars

(***************************************************************************)
(* core/dag.py: DAGParallelController                                      *)
(***************************************************************************)
\* ProductionToolRegistry.is_parallel_safe
is_parallel_safe(tool) ==
    IF tool \in DOMAIN registry_data THEN registry_data[tool].parallel_safe
    ELSE FALSE

\* DAGNode built by load_plan from one normalized step; status "pending".
DAGNode(step_data) ==
    [id |-> step_data.id, step |-> step_data.step, tool |-> step_data.tool,
     after |-> step_data.after, status |-> "pending", result |-> "none"]

\* The ready-queue priority (node.step, node.tool, node.id), compared as
\* Python compares tuples.
PriorityLess(a, b) ==
    \/ a.step < b.step
    \/ a.step = b.step /\ ToolRank(a.tool) < ToolRank(b.tool)
    \/ a.step = b.step /\ a.tool = b.tool /\ IdRank(a.id) < IdRank(b.id)

\* PriorityQueue.put: the queue is kept as the list get() would drain.
RECURSIVE queue_put(_, _, _)
\* put() on a first-in first-out queue: the priority is ignored
queue_put_fifo(ns, q, nid) == Append(q, nid)

queue_put(ns, q, nid) ==
    IF q = <<>> THEN <<nid>>
    ELSE IF PriorityLess(ns[nid], ns[Head(q)]) THEN <<nid>> \o q
    ELSE <<Head(q)>> \o queue_put(ns, Tail(q), nid)

\* _deps_satisfied with any() in place of all().
deps_satisfied_any(node, done) ==
    node.after = {} \/ \E dep \in node.after : dep \in done

\* _deps_satisfied
deps_satisfied(node, done) == \A dep \in node.after : dep \in done

\* _update_ready_queue without its test of node.status == "pending"
RECURSIVE update_ready_queue_any_status(_, _, _, _)
update_ready_queue_any_status(order, st, infl, done) ==
    IF order = <<>> THEN st
    ELSE LET nid == Head(order)
             node == st.nodes[nid]
         IN IF nid \notin infl /\ deps_satisfied(node, done)
            THEN update_ready_queue_any_status(Tail(order),
                    [nodes |-> [st.nodes EXCEPT ![nid].status = "ready"],
                     ready_queue |-> queue_put(st.nodes, st.ready_queue, nid)],
                    infl, done)
            ELSE update_ready_queue_any_status(Tail(order), st, infl, done)

\* _update_ready_queue, over nodes.values() in dict (normalized plan) order;
\* st carries nodes and ready_queue.
RECURSIVE update_ready_queue(_, _, _, _)
update_ready_queue(order, st, infl, done) ==
    IF order = <<>> THEN st
    ELSE LET nid == Head(order)
             node == st.nodes[nid]
         IN IF /\ node.status = "pending"
               /\ nid \notin infl
               /\ deps_satisfied(node, done)
            THEN update_ready_queue(Tail(order),
                    [nodes |-> [st.nodes EXCEPT ![nid].status = "ready"],
                     ready_queue |-> queue_put(st.nodes, st.ready_queue, nid)],
                    infl, done)
            ELSE update_ready_queue(Tail(order), st, infl, done)

\* The iteration order of self.nodes: ascending normalized step.
RECURSIVE NodeOrder(_, _)
NodeOrder(ns, k) ==
    IF k > Cardinality(DOMAIN ns) THEN <<>>
    ELSE <<CHOOSE x \in DOMAIN ns : ns[x].step = k>> \o NodeOrder(ns, k + 1)

\* _get_parallel_batch whose loop condition counts the batch only, not the
\* tasks already in flight.
RECURSIVE get_parallel_batch_batch_only(_, _, _, _, _)
get_parallel_batch_batch_only(ns, q, batch, infl, cmax) ==
    IF ~(Len(batch) < cmax /\ q # <<>>)
    THEN [batch |-> batch, ready_queue |-> q]
    ELSE LET nid == Head(q)
             rest == Tail(q)
         IN IF is_parallel_safe(ns[nid].tool)
            THEN get_parallel_batch_batch_only(ns, rest, Append(batch, nid), infl, cmax)
            ELSE IF infl = {} /\ batch = <<>>
            THEN [batch |-> <<nid>>, ready_queue |-> rest]
            ELSE [batch |-> batch, ready_queue |-> queue_put(ns, rest, nid)]

\* _get_parallel_batch: the while loop; returns the batch and the queue left.
RECURSIVE get_parallel_batch(_, _, _, _, _)
get_parallel_batch(ns, q, batch, infl, cmax) ==
    IF ~(Cardinality(infl) + Len(batch) < cmax /\ q # <<>>)
    THEN [batch |-> batch, ready_queue |-> q]
    ELSE LET nid == Head(q)
             rest == Tail(q)
         IN IF is_parallel_safe(ns[nid].tool)
            THEN get_parallel_batch(ns, rest, Append(batch, nid), infl, cmax)
            ELSE IF infl = {} /\ batch = <<>>
            THEN [batch |-> <<nid>>, ready_queue |-> rest]
            ELSE [batch |-> batch, ready_queue |-> queue_put(ns, rest, nid)]

\* What the awaited tool hands back to _execute_node: a result document
\* with or without the success / error fields, or a raised exception.
ToolOutcomes ==
    { [raised |-> FALSE, success |-> "true", error |-> FALSE],
      [raised |-> FALSE, success |-> "false", error |-> TRUE],
      [raised |-> TRUE, success |-> "absent", error |-> TRUE] }

\* _execute_node: success = result_data.get("success", True) or
\* ("error" not in result_data); an exception gives success False.
node_success(o) ==
    IF o.raised THEN FALSE
    ELSE (o.success # "false") \/ ~o.error

\* execute_plan, the body of `for task in done_tasks` taken in the order
\* `order`; st carries inflight, completed, failed, nodes, ready_queue,
\* results and cancelled.
RECURSIVE process_done(_, _)
process_done(order, st) ==
    IF order = <<>> THEN st
    ELSE LET nid == Head(order)
             infl == st.inflight \ {nid}
         IN IF st.nodes[nid].result = "ok"
            THEN LET done == st.completed \cup {nid}
                     u == update_ready_queue(NodeOrder(st.nodes, 1),
                              [nodes |-> st.nodes, ready_queue |-> st.ready_queue],
                              infl, done)
                 IN process_done(Tail(order),
                        [st EXCEPT !.inflight = infl,
                                   !.completed = done,
                                   !.nodes = u.nodes,
                                   !.ready_queue = u.ready_queue,
                                   !.results = Append(@, nid)])
            ELSE [st EXCEPT !.inflight = infl,
                            !.failed = TRUE,
                            !.results = Append(@, nid),
                            !.cancelled = @ \cup {x \in infl : task[x] = "running"}]

Perms(S) ==
    {f \in [1..Cardinality(S) -> S] : \A i, j \in 1..Cardinality(S) : i # j => f[i] # f[j]}

(***************************************************************************)
(* Spec: the planner's plan is loaded into a controller and executed.      *)
(***************************************************************************)
Init ==
    /\ plan = <<>>
    /\ vresult = NoResult
    /\ vphase = "off"
    /\ pc = "planning"
    /\ DagOff
    /\ ExecutorOff
    /\ BreakerOff
    /\ StepOff
    /\ LegacyOff
    /\ AgentOff
    /\ CacheOff

Planner ==
    /\ pc = "planning"
    /\ PlannerAppend
    /\ UNCHANGED <<xvars, rvars, vresult, vphase, dvars>>

\* The controller as load_plan reads and writes it.
Controller(ns, q, infl, done, f) ==
    [nodes |-> ns, ready_queue |-> q, inflight |-> infl, completed |-> done,
     failed |-> f]

\* The clearing statements of load_plan without self.completed.clear()
clear_keep_completed(c) == Controller(NoNodes, <<>>, {}, c.completed, FALSE)

\* self.nodes.clear(); self.ready_queue = PriorityQueue();
\* self.inflight.clear(); self.completed.clear(); self.failed = False
clear(c) == Controller(NoNodes, <<>>, {}, {}, FALSE)

\* for step_data in normalized_plan["plan"]: self.nodes[node.id] = node
load_nodes(c, vr) ==
    [x \in DOMAIN c.nodes \cup Range(vr.topo_order_ids) |->
        IF x \in Range(vr.topo_order_ids)
        THEN DAGNode(vr.normalized_plan[IndexOf(vr.topo_order_ids, x)])
        ELSE c.nodes[x]]

\* self._update_ready_queue() at the end of load_plan
load_seed(c, ns) ==
    update_ready_queue(NodeOrder(ns, 1),
                       [nodes |-> ns, ready_queue |-> c.ready_queue],
                       c.inflight, c.completed)

\* the controller c with the nodes and the ready queue of u
load_built(c, u) == [c EXCEPT !.nodes = u.nodes, !.ready_queue = u.ready_queue]

\* load_plan after its clearing statements, on the cleared controller c and
\* the validation result vr: raise ValueError on an invalid plan, else build
\* the nodes from the normalized plan and seed the ready queue
load_plan_validated(c, vr) ==
    IF ~vr.valid
    THEN [raised |-> TRUE, controller |-> c]
    ELSE [raised |-> FALSE,
          controller |-> load_built(c, load_seed(c, load_nodes(c, vr)))]

\* load_plan(plan): clear, validate, then raise or build
load_plan(c, p) == load_plan_validated(clear(c), validate_plan(p))

ThisController == Controller(nodes, ready_queue, inflight, completed, failed)

\* The effect of one load_plan(p) call that raises or not, as `raised` says.
\* The tasks of the plan it replaces are not cancelled: those still running
\* become orphans. The locals and the summary of an earlier execute_plan call
\* are gone.
LoadEffect(p, raised) ==
    \E r \in {load_plan(ThisController, p)} :
       /\ r.raised = raised
       /\ nodes' = r.controller.nodes
       /\ ready_queue' = r.controller.ready_queue
       /\ inflight' = r.controller.inflight
       /\ completed' = r.controller.completed
       /\ failed' = r.controller.failed
       /\ task' = [x \in DOMAIN r.controller.nodes |-> "none"]
       /\ orphans' = orphans \cup {x \in DOMAIN task :
                                     task[x] = "running" /\ x \notin cancelled}
       /\ cancelled' = {}
       /\ results' = <<>>
       /\ expired' = FALSE
       /\ status' = "none"
       /\ loads' = loads + 1
       /\ last_load' = IF raised THEN "rejected" ELSE "ok"
       /\ pc' = IF raised THEN "rejected" ELSE "loaded"
       /\ plan' = <<>>

\* DAGParallelController(tool_registry, concurrency_max=c).load_plan(plan),
\* validation failed: ValueError raised after the controller was cleared.
LoadPlanRejected ==
    /\ pc = "planning"
    /\ LoadEffect(plan, TRUE)
    /\ \E c \in 1..DefaultConcurrencyMax : concurrency_max' = c
    /\ UNCHANGED <<xvars, vresult, vphase>>

\* DAGParallelController(tool_registry, concurrency_max=c).load_plan(plan),
\* plan valid: nodes from the normalized plan, ready queue seeded.
LoadPlan ==
    /\ pc = "planning"
    /\ LoadEffect(plan, FALSE)
    /\ \E c \in 1..DefaultConcurrencyMax : concurrency_max' = c
    /\ UNCHANGED <<xvars, vresult, vphase>>

\* plans handed to load_plan on a controller that was loaded before: the
\* cyclic plan of the validator demo and a one-node plan
ReloadPlans ==
    { <<PlanNode("s1", 1, "add_task", {"s2"}),
        PlanNode("s2", 2, "calculate_percentage", {"s1"})>>,
      <<PlanNode("s1", 1, "calculate_percentage", {})>> }

\* load_plan(p) on the same controller, between execute_plan calls; p is
\* rejected
ReloadRejected ==
    /\ pc \in {"loaded", "rejected", "done"}
    /\ loads < MaxLoads
    /\ \E p \in ReloadPlans : LoadEffect(p, TRUE)
    /\ UNCHANGED <<xvars, vresult, vphase, concurrency_max>>

\* load_plan(p) on the same controller, between execute_plan calls; p is
\* accepted
Reload ==
    /\ pc \in {"loaded", "rejected", "done"}
    /\ loads < MaxLoads
    /\ \E p \in ReloadPlans : LoadEffect(p, FALSE)
    /\ UNCHANGED <<xvars, vresult, vphase, concurrency_max>>

\* The tool call of a task whose plan was replaced comes to its end.
OrphanFinish(n) ==
    /\ n \in orphans
    /\ orphans' = orphans \ {n}
    /\ UNCHANGED <<xvars, vvars, dvars, loads, last_load>>

\* execute_plan up to the first test of the loop condition.
ExecuteStart ==
    /\ pc \in {"loaded", "rejected"}
    /\ results' = <<>>
    /\ expired' = FALSE
    /\ pc' = "loop"
    /\ UNCHANGED <<xvars, rvars, vvars, concurrency_max, nodes, ready_queue, inflight,
                   completed, failed, task, cancelled, status>>

\* The wall clock passes the deadline.
Tick ==
    /\ pc \in {"loop", "waiting", "sleeping", "finishing"}
    /\ ~expired
    /\ expired' = TRUE
    /\ UNCHANGED <<xvars, rvars, vvars, concurrency_max, nodes, ready_queue, inflight,
                   completed, failed, task, cancelled, results, pc, status>>

\* The while condition without its test of self.failed.
LoopConditionIgnoringFailed == ready_queue # <<>> /\ ~expired

\* while not self.ready_queue.empty() and not self.failed and time.time() < deadline
LoopCondition == ready_queue # <<>> /\ ~failed /\ ~expired

\* The while condition is false: the loop is left.
LoopExit ==
    /\ pc = "loop"
    /\ ~LoopCondition
    /\ pc' = "finishing"
    /\ UNCHANGED <<xvars, rvars, vvars, concurrency_max, nodes, ready_queue, inflight,
                   completed, failed, task, cancelled, results, expired, status>>

Batch == get_parallel_batch(nodes, ready_queue, <<>>, inflight, concurrency_max)

\* if not batch: break when nothing is in flight, else
\* await asyncio.sleep(0.01); continue
LoopNoBatch ==
    /\ pc = "loop"
    /\ LoopCondition
    /\ Batch.batch = <<>>
    /\ ready_queue' = Batch.ready_queue
    /\ pc' = IF inflight = {} THEN "finishing" ELSE "sleeping"
    /\ UNCHANGED <<xvars, rvars, vvars, concurrency_max, nodes, inflight, completed, failed,
                   task, cancelled, results, expired, status>>

SleepReturn ==
    /\ pc = "sleeping"
    /\ pc' = "loop"
    /\ UNCHANGED <<xvars, rvars, vvars, concurrency_max, nodes, ready_queue, inflight,
                   completed, failed, task, cancelled, results, expired, status>>

\* The batch is launched: a task per node, entered into inflight; each task
\* starts (_execute_node sets status "running") when asyncio.wait yields.
LoopLaunch ==
    /\ pc = "loop"
    /\ LoopCondition
    /\ Batch.batch # <<>>
    /\ ready_queue' = Batch.ready_queue
    /\ inflight' = inflight \cup Range(Batch.batch)
    /\ task' = [x \in DOMAIN task |->
                  IF x \in Range(Batch.batch) THEN "running" ELSE task[x]]
    /\ nodes' = [x \in DOMAIN nodes |->
                  IF x \in Range(Batch.batch)
                  THEN [nodes[x] EXCEPT !.status = "running"] ELSE nodes[x]]
    /\ pc' = "waiting"
    /\ UNCHANGED <<xvars, rvars, vvars, concurrency_max, completed, failed, cancelled,
                   results, expired, status>>

\* _execute_node from the return (or exception) of the awaited tool on.
TaskFinishEffect(n, o) ==
    /\ pc \in {"waiting", "sleeping", "done"}
    /\ n \in DOMAIN task
    /\ task[n] = "running"
    /\ n \notin cancelled
    /\ task' = [task EXCEPT ![n] = IF node_success(o) THEN "ok" ELSE "fail"]
    /\ nodes' = [nodes EXCEPT
                   ![n].status = IF node_success(o) THEN "completed" ELSE "failed",
                   ![n].result = IF node_success(o) THEN "ok" ELSE "fail"]
    /\ UNCHANGED <<rvars, vvars, concurrency_max, ready_queue, inflight, completed,
                   failed, cancelled, results, expired, pc, status>>

TaskFinish(n, o) ==
    /\ TaskFinishEffect(n, o)
    /\ UNCHANGED xvars

\* A task that received cancel() ends with CancelledError, which the
\* `except Exception` of _execute_node does not catch.
TaskCancelled(n) ==
    /\ pc = "done"
    /\ n \in cancelled
    /\ task[n] = "running"
    /\ task' = [task EXCEPT ![n] = "cancelled"]
    /\ UNCHANGED <<xvars, rvars, vvars, concurrency_max, nodes, ready_queue, inflight,
                   completed, failed, cancelled, results, expired, pc, status>>

DoneTasks == {x \in inflight : task[x] \in {"ok", "fail"}}

\* asyncio.wait returns the tasks that are done; they are processed in the
\* iteration order of the set done_tasks.
WaitReturn ==
    /\ pc = "waiting"
    /\ DoneTasks # {}
    /\ \E order \in Perms(DoneTasks) :
          LET st == process_done(order,
                      [inflight |-> inflight, completed |-> completed,
                       failed |-> failed, nodes |-> nodes,
                       ready_queue |-> ready_queue, results |-> results,
                       cancelled |-> cancelled])
          IN /\ inflight' = st.inflight
             /\ completed' = st.completed
             /\ failed' = st.failed
             /\ nodes' = st.nodes
             /\ ready_queue' = st.ready_queue
             /\ results' = st.results
             /\ cancelled' = st.cancelled
    /\ pc' = "loop"
    /\ UNCHANGED <<xvars, rvars, vvars, concurrency_max, task, expired, status>>

\* asyncio.wait runs into its timeout with no task done.
WaitTimeout ==
    /\ pc = "waiting"
    /\ DoneTasks = {}
    /\ pc' = "loop"
    /\ UNCHANGED <<xvars, rvars, vvars, concurrency_max, nodes, ready_queue, inflight,
                   completed, failed, task, cancelled, results, expired, status>>

\* The status with the test of self.failed placed before that of the deadline.
summary_status_failed_first(exp, f, done, ns) ==
    IF f THEN "failed"
    ELSE IF exp THEN "timeout"
    ELSE IF Cardinality(done) = Cardinality(DOMAIN ns) THEN "completed"
    ELSE "incomplete"

\* if time.time() >= deadline ... elif self.failed ... elif len(self.completed)
\* == len(self.nodes) ... else
summary_status(exp, f, done, ns) ==
    IF exp THEN "timeout"
    ELSE IF f THEN "failed"
    ELSE IF Cardinality(done) = Cardinality(DOMAIN ns) THEN "completed"
    ELSE "incomplete"

\* execute_plan after the loop: the status of the summary.
Finish ==
    /\ pc = "finishing"
    /\ status' = summary_status(expired, failed, completed, nodes)
    /\ pc' = "done"
    /\ UNCHANGED <<xvars, rvars, vvars, concurrency_max, nodes, ready_queue, inflight,
                   completed, failed, task, cancelled, results, expired>>

Next ==
    \/ Planner
    \/ LoadPlanRejected
    \/ LoadPlan
    \/ ReloadRejected
    \/ Reload
    \/ \E n \in Ids : OrphanFinish(n)
    \/ ExecuteStart
    \/ Tick
    \/ LoopExit
    \/ LoopNoBatch
    \/ SleepReturn
    \/ LoopLaunch
    \/ \E n \in Ids, o \in ToolOutcomes : TaskFinish(n, o)
    \/ \E n \in Ids : TaskCancelled(n)
    \/ WaitReturn
    \/ WaitTimeout
    \/ Finish

Spec == Init /\ [][Next]_vars

(***************************************************************************)
(* core/circuit_breaker.py: CircuitBreaker                                 *)
(***************************************************************************)

\* self.bucket_len = cfg.window_seconds / cfg.buckets
bucket_len == window_seconds \div cfg_buckets

\* _idx(now); sequences are 1-based, so the Python index plus one
idx(t) == ((t \div bucket_len) % cfg_buckets) + 1

Bucket(s, f, t) == [s |-> s, f |-> f, t |-> t]

\* [{"s": 0, "f": 0, "t": now} for _ in range(cfg.buckets)]
fresh_buckets(t) == [i \in 1..cfg_buckets |-> Bucket(0, 0, t)]

\* _rotate(now)
rotate(bs, t) ==
    IF t - bs[idx(t)].t >= bucket_len
    THEN [bs EXCEPT ![idx(t)] = Bucket(0, 0, t)]
    ELSE bs

RECURSIVE sum_field(_, _, _)
sum_field(bs, i, fld) ==
    IF i > Len(bs) THEN 0
    ELSE (IF fld = "s" THEN bs[i].s ELSE bs[i].f) + sum_field(bs, i + 1, fld)

Max(a, b) == IF a >= b THEN a ELSE b

\* total >= cfg.min_requests and f / max(total, 1) > cfg.failure_threshold
trips_strict(total, f) ==
    /\ total >= min_requests
    /\ f * failure_threshold_den > failure_threshold_num * Max(total, 1)

\* total >= cfg.min_requests and f / max(total, 1) >= cfg.failure_threshold
trips(total, f) ==
    /\ total >= min_requests
    /\ f * failure_threshold_den >= failure_threshold_num * Max(total, 1)

Breaker(bs, st, since) == [buckets |-> bs, state |-> st, open_since |-> since]

\* allow(): the breaker afterwards and the value returned
allow(br, t) ==
    LET bs == rotate(br.buckets, t)
    IN  IF br.state = OPEN
        THEN IF t - br.open_since >= cooldown_seconds
             THEN [breaker |-> Breaker(bs, HALF_OPEN, br.open_since), ret |-> TRUE]
             ELSE [breaker |-> Breaker(bs, OPEN, br.open_since), ret |-> FALSE]
        ELSE [breaker |-> Breaker(bs, br.state, br.open_since), ret |-> TRUE]

\* on_result(ok) with a failed probe leaving open_since as it was
on_result_keep_since(br, t, ok) ==
    LET b0 == rotate(br.buckets, t)
        i == idx(t)
        b1 == IF ok THEN [b0 EXCEPT ![i].s = @ + 1]
                    ELSE [b0 EXCEPT ![i].f = @ + 1]
        s == sum_field(b1, 1, "s")
        f == sum_field(b1, 1, "f")
        total == s + f
        tripped == br.state = CLOSED /\ trips(total, f)
        st1 == IF tripped THEN OPEN ELSE br.state
        since1 == IF tripped THEN t ELSE br.open_since
    IN  IF st1 = HALF_OPEN
        THEN IF ok
             THEN Breaker(fresh_buckets(t), CLOSED, since1)
             ELSE Breaker(b1, OPEN, since1)
        ELSE Breaker(b1, st1, since1)

\* on_result(ok): the breaker afterwards
on_result(br, t, ok) ==
    LET b0 == rotate(br.buckets, t)
        i == idx(t)
        b1 == IF ok THEN [b0 EXCEPT ![i].s = @ + 1]
                    ELSE [b0 EXCEPT ![i].f = @ + 1]
        s == sum_field(b1, 1, "s")
        f == sum_field(b1, 1, "f")
        total == s + f
        tripped == br.state \in {CLOSED, HALF_OPEN} /\ trips(total, f)
        st1 == IF tripped THEN OPEN ELSE br.state
        since1 == IF tripped THEN t ELSE br.open_since
    IN  IF st1 = HALF_OPEN
        THEN IF ok
             THEN Breaker(fresh_buckets(t), CLOSED, since1)
             ELSE Breaker(b1, OPEN, t)
        ELSE Breaker(b1, st1, since1)

(***************************************************************************)
(* SpecB: one breaker with the demo's BreakerConfig; the clock advances    *)
(* between the calls made on it.                                           *)
(***************************************************************************)
StartTimes == {0, 5}     \* time.time() at construction
ClockSteps == {5}        \* seconds between two calls

ValidatorOff ==
    /\ plan = <<>>
    /\ vresult = NoResult
    /\ vphase = "off"

\* CircuitBreaker(cfg)
InitB ==
    /\ ValidatorOff
    /\ pc = "off"
    /\ DagOff
    /\ ExecutorOff
    /\ StepOff
    /\ LegacyOff
    /\ AgentOff
    /\ CacheOff
    /\ now \in StartTimes
    /\ buckets = fresh_buckets(now)
    /\ state = CLOSED
    /\ open_since = 0
    /\ allowed = "none"
    /\ probes = 0
    /\ outcome = "none"
    /\ records = 0

This == Breaker(buckets, state, open_since)

ClockAdvance(d) ==
    /\ now + d <= MaxTime
    /\ now' = now + d
    /\ UNCHANGED <<vvars, dvars, rvars, avars, evars, lvars, svars, cvars>>

Allow ==
    /\ probes < MaxProbes
    /\ LET r == allow(This, now)
       IN /\ buckets' = r.breaker.buckets
          /\ state' = r.breaker.state
          /\ open_since' = r.breaker.open_since
          /\ allowed' = IF r.ret THEN "true" ELSE "false"
          /\ probes' = IF r.ret /\ state \in {OPEN, HALF_OPEN}
                       THEN probes + 1 ELSE probes
    /\ UNCHANGED <<vvars, dvars, rvars, avars, evars, lvars, svars, now, outcome, records>>

OnResult(ok) ==
    /\ records < MaxRecords
    /\ LET br == on_result(This, now, ok)
       IN /\ buckets' = br.buckets
          /\ state' = br.state
          /\ open_since' = br.open_since
    /\ outcome' = IF ok THEN "success" ELSE "failure"
    /\ probes' = 0
    /\ records' = records + 1
    /\ UNCHANGED <<vvars, dvars, rvars, avars, evars, lvars, svars, now, allowed>>

NextB ==
    \/ \E d \in ClockSteps : ClockAdvance(d)
    \/ Allow
    \/ \E ok \in BOOLEAN : OnResult(ok)

SpecB == InitB /\ [][NextB]_vars

(***************************************************************************)
(* core/registry.py: the result cache of ToolRegistry                      *)
(***************************************************************************)
None == "none"

\* f with key k bound to v (dict assignment)
Put(f, k, v) == [x \in DOMAIN f \cup {k} |-> IF x = k THEN v ELSE f[x]]

get_tool_purity(tool) ==
    IF tool \in DOMAIN registry_data THEN registry_data[tool].purity
    ELSE "impure"

\* An input dict is the sequence of its items in insertion order.
Item(k, v) == [k |-> k, v |-> v]
KeyOrder == <<"description", "extra", "text">>
KeyRank(k) == CHOOSE i \in 1..Len(KeyOrder) : KeyOrder[i] = k

\* json.dumps(tool_input) keeps the insertion order of the keys
dumps_unsorted(inp) == inp

\* json.dumps(tool_input, sort_keys=True): the items in key order
RECURSIVE dumps_sorted(_)
dumps_sorted(inp) ==
    IF inp = <<>> THEN <<>>
    ELSE LET m == CHOOSE i \in 1..Len(inp) :
                    \A j \in 1..Len(inp) : KeyRank(inp[i].k) <= KeyRank(inp[j].k)
         IN <<inp[m]>> \o dumps_sorted([j \in 1..(Len(inp) - 1) |->
                                          IF j < m THEN inp[j] ELSE inp[j + 1]])

\* _create_cache_key under unsorted serialisation
create_cache_key_unsorted(tool, inp) == <<tool, dumps_unsorted(inp)>>

\* _create_cache_key: sha256 of "tool:canonical input", taken as injective
create_cache_key(tool, inp) == <<tool, dumps_sorted(inp)>>

get_cached_result(cache, tool, inp) ==
    IF get_tool_purity(tool) = "pure" /\ create_cache_key(tool, inp) \in DOMAIN cache
    THEN cache[create_cache_key(tool, inp)]
    ELSE None

cache_result(cache, tool, inp, result) ==
    IF get_tool_purity(tool) = "pure"
    THEN Put(cache, create_cache_key(tool, inp), result)
    ELSE cache

(***************************************************************************)
(* SpecS: AgentController._execute_step_with_retry, one step execution at  *)
(* a time, split where the coroutine awaits the tool or the backoff sleep. *)
(***************************************************************************)
\* the steps executed: a pure tool with one input in both key orders and
\* with a second input, and an impure tool
StepCalls ==
    { <<"calculate_percentage", <<Item("text", "x"), Item("extra", "y")>> >>,
      <<"calculate_percentage", <<Item("extra", "y"), Item("text", "x")>> >>,
      <<"calculate_percentage", <<Item("text", "z")>> >>,
      <<"add_task", <<Item("text", "z")>> >> }

\* the input as a dict: its set of key/value pairs, whatever the order
InputDict(inp) == {<<inp[i].k, inp[i].v>> : i \in 1..Len(inp)}

\* the envelope a tool returns on success is a function of tool and input
payload_of(tool, inp) == <<"result", tool, InputDict(inp)>>

\* the step as the properties identify it: tool and input up to key order
StepKey(tool, inp) == <<tool, InputDict(inp)>>

\* what _execute_tool can do: return a success envelope, return a failure
\* envelope with an error code, or raise
StepOutcomes ==
    {[kind |-> "success", code |-> None]}
    \cup {[kind |-> "failure", code |-> c] :
            c \in {E_TIMEOUT, E_RATE_LIMIT, E_TOOL_FAILED}}
    \cup {[kind |-> "raise", code |-> None]}

StepResult(success, output, code, cache_hit, blocked) ==
    [success |-> success, output |-> output, code |-> code,
     cache_hit |-> cache_hit, blocked |-> blocked]

\* ToolCircuitBreakerRegistry.get_breaker: created on first use
get_breaker(bk, tool, t) ==
    IF tool \in DOMAIN bk THEN bk[tool] ELSE Breaker(fresh_buckets(t), CLOSED, 0)

InitS ==
    /\ ValidatorOff
    /\ pc = "off"
    /\ DagOff
    /\ ExecutorOff
    /\ LegacyOff
    /\ AgentOff
    /\ CacheOff
    /\ now = 0
    /\ buckets = <<>>
    /\ state = "off"
    /\ open_since = 0
    /\ allowed = "none"
    /\ probes = 0
    /\ outcome = "none"
    /\ records = 0
    /\ spc = "idle"
    /\ tool_name = "none"
    /\ tool_input = <<>>
    /\ attempt = 0
    /\ step_result = NoStepResult
    /\ pure_cache = NoNodes
    /\ breakers = NoNodes
    /\ invocations = 0
    /\ recorded = 0
    /\ executed = NoNodes
    /\ prior = "none"
    /\ steps = 0

ClockAdvanceS(d) ==
    /\ now + d <= MaxStepTime
    /\ now' = now + d
    /\ UNCHANGED <<vvars, dvars, rvars, avars, evars, lvars, cvars, svars>>

circuit_open_result_tool_failed ==
    StepResult(FALSE, "error", E_TOOL_FAILED, FALSE, TRUE)

\* the step result returned when allow_request refuses the call
circuit_open_result ==
    StepResult(FALSE, "error", E_CIRCUIT_OPEN, FALSE, TRUE)

\* _execute_step_with_retry up to the first await: breaker check, cache
\* lookup, first call of the tool
StepCallEffect(tool, inp) ==
    /\ spc = "idle"
    /\ steps < MaxSteps
    /\ LET a == allow(get_breaker(breakers, tool, now), now)
           cached_result == get_cached_result(pure_cache, tool, inp)
           key == StepKey(tool, inp)
       IN /\ breakers' = Put(breakers, tool, a.breaker)
          /\ prior' = IF key \in DOMAIN executed THEN executed[key] ELSE None
          /\ IF ~a.ret
             THEN /\ step_result' = circuit_open_result
                  /\ spc' = "idle"
                  /\ invocations' = 0
             ELSE IF cached_result # None
             THEN /\ step_result' = StepResult(TRUE, cached_result, None, TRUE, FALSE)
                  /\ spc' = "idle"
                  /\ invocations' = 0
             ELSE /\ step_result' = NoStepResult
                  /\ spc' = "tool"
                  /\ invocations' = 1
    /\ tool_name' = tool
    /\ tool_input' = inp
    /\ attempt' = 0
    /\ recorded' = 0
    /\ steps' = steps + 1
    /\ UNCHANGED <<pure_cache, executed>>

StepCall(tool, inp) ==
    /\ StepCallEffect(tool, inp)
    /\ UNCHANGED <<vvars, dvars, rvars, avars, evars, lvars, bvars>>

should_retry_any_failure(o, n) ==
    n < max_retries /\ o.kind \in {"raise", "failure"}

\* the attempt numbered n (from 0) ended with outcome o: sleep and `continue`
should_retry(o, n) ==
    n < max_retries /\
    (o.kind = "raise" \/
     (o.kind = "failure" /\ o.code \in {E_TIMEOUT, E_RATE_LIMIT}))

\* the awaited _execute_tool call finishes with outcome o
ToolReturnEffect(o) ==
    /\ spc = "tool"
    /\ LET success == o.kind = "success"
           result_data == payload_of(tool_name, tool_input)
           retry == should_retry(o, attempt)
       IN /\ breakers' = Put(breakers, tool_name,
                 on_result(get_breaker(breakers, tool_name, now), now, success))
          /\ recorded' = recorded + 1
          /\ pure_cache' = IF success
                           THEN cache_result(pure_cache, tool_name, tool_input, result_data)
                           ELSE pure_cache
          /\ executed' = IF success /\ get_tool_purity(tool_name) = "pure"
                         THEN Put(executed, StepKey(tool_name, tool_input), result_data)
                         ELSE executed
          /\ IF success
             THEN /\ step_result' = StepResult(TRUE, result_data, None, FALSE, FALSE)
                  /\ spc' = "idle"
             ELSE IF retry
             THEN /\ step_result' = step_result
                  /\ spc' = "sleep"
             ELSE /\ step_result' = StepResult(FALSE, "error",
                        IF o.kind = "raise" THEN E_TOOL_FAILED ELSE o.code, FALSE, FALSE)
                  /\ spc' = "idle"
    /\ UNCHANGED <<tool_name, tool_input, attempt, invocations, prior, steps>>

ToolReturn(o) ==
    /\ ToolReturnEffect(o)
    /\ UNCHANGED <<vvars, dvars, rvars, avars, evars, lvars, bvars>>

\* asyncio.sleep(wait_time) returns; `continue` starts the next attempt
BackoffDoneEffect ==
    /\ spc = "sleep"
    /\ spc' = "tool"
    /\ attempt' = attempt + 1
    /\ invocations' = invocations + 1
    /\ UNCHANGED <<tool_name, tool_input, step_result, pure_cache, breakers,
                   recorded, executed, prior, steps>>

BackoffDone ==
    /\ BackoffDoneEffect
    /\ UNCHANGED <<vvars, dvars, rvars, avars, evars, lvars, bvars>>

NextS ==
    \/ \E d \in ClockSteps : ClockAdvanceS(d)
    \/ \E c \in StepCalls : StepCall(c[1], c[2])
    \/ \E o \in StepOutcomes : ToolReturn(o)
    \/ BackoffDone

SpecS == InitS /\ [][NextS]_vars

(***************************************************************************)
(* legacy/production_tool_registry.py: idempotency keys                    *)
(***************************************************************************)

\* metadata of the tool registry document for the tool executed below
production_registry ==
    [t \in {"add_task"} |->
        [purity |-> "impure", requires_idempotency_key |-> TRUE, cache_ttl_s |-> 0]]

requires_idempotency_key(tool) ==
    IF tool \in DOMAIN production_registry
    THEN production_registry[tool].requires_idempotency_key
    ELSE FALSE

get_cache_ttl(tool) ==
    IF tool \in DOMAIN production_registry
    THEN production_registry[tool].cache_ttl_s
    ELSE 0

\* ProductionToolRegistry.get_cached_result: nothing is cached for a tool
\* whose cache_ttl_s is 0
legacy_get_cached_result(cache, tool, inp) ==
    IF get_cache_ttl(tool) = 0 THEN None
    ELSE IF create_cache_key(tool, inp) \in DOMAIN cache
    THEN cache[create_cache_key(tool, inp)]
    ELSE None

\* generate_idempotency_key: sha256 over the sorted-key serialisation of
\* request, step, tool and input (and the fixed registry_version), taken as
\* injective
generate_idempotency_key(request, step, tool, inp) ==
    <<request, step, tool, dumps_sorted(inp)>>

is_duplicate_operation(keys, key) == key \in keys

\* mark_operation_complete: the key sets that can result; above
\* MaxIdempotencyKeys keys, the first PrunedIdempotencyKeys of the set's
\* iteration order are dropped, whichever those are
mark_operation_complete(keys, key) ==
    IF Cardinality(keys \cup {key}) > MaxIdempotencyKeys
    THEN {(keys \cup {key}) \ D : D \in {E \in SUBSET (keys \cup {key}) :
                                          Cardinality(E) = PrunedIdempotencyKeys}}
    ELSE {keys \cup {key}}

(***************************************************************************)
(* SpecL: EnhancedPlannerExecutorAgent._execute_step_with_retry, one step  *)
(* execution at a time, for a tool that requires an idempotency key.       *)
(***************************************************************************)
\* (user_request, step_number, tool, input) of the steps executed
LegacyCalls ==
    { <<"r1", 1, "add_task", <<Item("text", "x"), Item("extra", "y")>> >>,
      <<"r1", 1, "add_task", <<Item("extra", "y"), Item("text", "x")>> >>,
      <<"r1", 2, "add_task", <<Item("text", "x"), Item("extra", "y")>> >>,
      <<"r2", 1, "add_task", <<Item("text", "x"), Item("extra", "y")>> >> }

Envelope(kind, success, error, error_code) ==
    [kind |-> kind, success |-> success, error |-> error, error_code |-> error_code]

\* what a tool call can produce: a JSON envelope with or without the keys
\* "success", "error" and "error_code", a string that is not JSON, or an
\* exception
LegacyOutcomes ==
    { Envelope("json", "true", FALSE, None),
      Envelope("json", "absent", FALSE, None),
      Envelope("json", "false", FALSE, None),
      Envelope("json", "false", TRUE, "TIMEOUT"),
      Envelope("json", "false", TRUE, "RATE_LIMIT"),
      Envelope("json", "false", TRUE, "TOOL_ERROR"),
      Envelope("invalid", "absent", FALSE, None),
      Envelope("raise", "absent", FALSE, None) }

\* result_data.get("success", False) or
\*     ("error" not in result_data and "error_code" not in result_data)
legacy_success(e) ==
    (e.success = "true") \/ (~e.error /\ e.error_code = None)

LegacyResult(success, output, code, skip, blocked) ==
    [success |-> success, output |-> output, code |-> code,
     cache_hit |-> FALSE, blocked |-> blocked, idempotent_skip |-> skip]

InitL ==
    /\ ValidatorOff
    /\ pc = "off"
    /\ DagOff
    /\ ExecutorOff
    /\ now = 0
    /\ buckets = <<>>
    /\ state = "off"
    /\ open_since = 0
    /\ allowed = "none"
    /\ probes = 0
    /\ outcome = "none"
    /\ records = 0
    /\ spc = "idle"
    /\ tool_name = "none"
    /\ tool_input = <<>>
    /\ attempt = 0
    /\ step_result = LegacyResult(FALSE, "none", "none", FALSE, FALSE)
    /\ pure_cache = NoNodes
    /\ breakers = NoNodes
    /\ invocations = 0
    /\ recorded = 0
    /\ executed = NoNodes
    /\ prior = "none"
    /\ steps = 0
    /\ LegacyOff
    /\ AgentOff
    /\ CacheOff

ClockAdvanceL(d) ==
    /\ now + d <= MaxStepTime
    /\ now' = now + d
    /\ UNCHANGED <<vvars, dvars, rvars, avars, evars, cvars, svars, lvars>>

\* _execute_step_with_retry up to the first await: breaker check, cache
\* lookup, idempotency check, first call of the tool
LegacyStepCall(request, step, tool, inp) ==
    /\ spc = "idle"
    /\ steps < MaxLegacySteps
    /\ LET a == allow(get_breaker(breakers, tool, now), now)
           cached_result == legacy_get_cached_result(pure_cache, tool, inp)
           idempotency_key == IF requires_idempotency_key(tool)
                              THEN generate_idempotency_key(request, step, tool, inp)
                              ELSE None
       IN /\ breakers' = Put(breakers, tool, a.breaker)
          /\ IF ~a.ret
             THEN /\ step_result' = LegacyResult(FALSE, "error", "CIRCUIT_BREAKER_OPEN",
                                                 FALSE, TRUE)
                  /\ spc' = "idle"
                  /\ invocations' = 0
             ELSE IF cached_result # None
             THEN /\ step_result' = [LegacyResult(TRUE, cached_result, None, FALSE, FALSE)
                                        EXCEPT !.cache_hit = TRUE]
                  /\ spc' = "idle"
                  /\ invocations' = 0
             ELSE IF idempotency_key # None /\
                     is_duplicate_operation(idempotency_keys, idempotency_key)
             THEN /\ step_result' = LegacyResult(TRUE, "already completed", None,
                                                 TRUE, FALSE)
                  /\ spc' = "idle"
                  /\ invocations' = 0
             ELSE /\ step_result' = LegacyResult(FALSE, "none", "none", FALSE, FALSE)
                  /\ spc' = "tool"
                  /\ invocations' = 1
    /\ user_request' = request
    /\ step_number' = step
    /\ tool_name' = tool
    /\ tool_input' = inp
    /\ attempt' = 0
    /\ recorded' = 0
    /\ steps' = steps + 1
    /\ UNCHANGED <<vvars, dvars, rvars, avars, evars, bvars, pure_cache, executed, prior,
                   idempotency_keys, envelope>>

\* the awaited tool call finishes with e
LegacyToolReturn(e) ==
    /\ spc = "tool"
    /\ envelope' = e
    /\ LET success == legacy_success(e)
           idempotency_key == IF requires_idempotency_key(tool_name)
                              THEN generate_idempotency_key(user_request, step_number,
                                                            tool_name, tool_input)
                              ELSE None
           retry == attempt < max_retries /\
                    (e.kind = "raise" \/
                     (e.kind = "json" /\ ~success /\
                      e.error_code \in {"TIMEOUT", "RATE_LIMIT"}))
       IN /\ breakers' = IF e.kind = "invalid" THEN breakers
                         ELSE Put(breakers, tool_name,
                                  on_result(get_breaker(breakers, tool_name, now), now,
                                            e.kind = "json" /\ success))
          /\ recorded' = IF e.kind = "invalid" THEN recorded ELSE recorded + 1
          /\ idempotency_keys' \in
                IF e.kind = "json" /\ success /\ idempotency_key # None
                THEN mark_operation_complete(idempotency_keys, idempotency_key)
                ELSE {idempotency_keys}
          /\ IF e.kind = "invalid"
             THEN /\ step_result' = LegacyResult(FALSE, "raw_result", None, FALSE, FALSE)
                  /\ spc' = "idle"
             ELSE IF e.kind = "json" /\ success
             THEN /\ step_result' = LegacyResult(TRUE, "result", None, FALSE, FALSE)
                  /\ spc' = "idle"
             ELSE IF retry
             THEN /\ step_result' = step_result
                  /\ spc' = "sleep"
             ELSE /\ step_result' = LegacyResult(FALSE, "error",
                        IF e.kind = "raise" THEN "EXECUTION_EXCEPTION"
                        ELSE IF e.error_code = None THEN "UNKNOWN_ERROR"
                        ELSE e.error_code, FALSE, FALSE)
                  /\ spc' = "idle"
    /\ UNCHANGED <<vvars, dvars, rvars, avars, evars, bvars, tool_name, tool_input, attempt,
                   invocations, pure_cache, executed, prior, steps,
                   user_request, step_number>>

\* asyncio.sleep(wait_time) returns; `continue` starts the next attempt
LegacyBackoffDone ==
    /\ spc = "sleep"
    /\ spc' = "tool"
    /\ attempt' = attempt + 1
    /\ invocations' = invocations + 1
    /\ UNCHANGED <<vvars, dvars, rvars, avars, evars, bvars, lvars, tool_name, tool_input, step_result,
                   pure_cache, breakers, recorded, executed, prior, steps>>

NextL ==
    \/ \E d \in ClockSteps : ClockAdvanceL(d)
    \/ \E c \in LegacyCalls : LegacyStepCall(c[1], c[2], c[3], c[4])
    \/ \E e \in LegacyOutcomes : LegacyToolReturn(e)
    \/ LegacyBackoffDone

SpecL == InitL /\ [][NextL]_vars

(***************************************************************************)
(* Vocabulary of the properties, defined from the plan alone.              *)
(***************************************************************************)
PlanIds(p) == {p[i].id : i \in 1..Len(p)}

SchemaValid(p) ==
    /\ Len(p) \in 1..MaxItems
    /\ \A i \in 1..Len(p) : p[i].tool \in DOMAIN registry_data /\ p[i].step >= 1

RefsResolve(p) == \A i \in 1..Len(p) : p[i].after \subseteq PlanIds(p)

UniqueIds(p) == \A i, j \in 1..Len(p) : i # j => p[i].id # p[j].id

\* The dependency edges <<dependency, dependent>> of a plan.
DepEdges(p) == UNION { {<<d, p[i].id>> : d \in p[i].after} : i \in 1..Len(p) }

RECURSIVE Closure(_, _)
Closure(E, S) ==
    LET T == S \cup {e[2] : e \in {f \in E : f[1] \in S}}
    IN IF T = S THEN S ELSE Closure(E, T)

\* Some id reaches itself along one or more dependency edges.
HasCycle(p) ==
    \E x \in PlanIds(p) :
        x \in Closure(DepEdges(p), {e[2] : e \in {f \in DepEdges(p) : f[1] = x}})

ErrorCodes(r) == {r.errors[i].code : i \in 1..Len(r.errors)}

\* id -> normalized step of a result (empty for a rejected plan).
StepMap(r) ==
    {<<r.normalized_plan[i].id, r.normalized_plan[i].step>> :
        i \in 1..Len(r.normalized_plan)}

Validated == vphase = "validated"

(***************************************************************************)
(* Properties of validate_plan (SpecV).                                    *)
(***************************************************************************)
\* C1, as stated: every schema-valid plan whose `after` references all
\* resolve and whose dependency graph has a cycle (a self-reference
\* included) is rejected with an E_CYCLE error and no normalized_plan.
C1_AsStated ==
    (Validated /\ SchemaValid(plan) /\ RefsResolve(plan) /\ HasCycle(plan))
        => /\ ~vresult.valid
           /\ E_CYCLE \in ErrorCodes(vresult)
           /\ vresult.normalized_plan = NoPlan

\* C1, amended: every schema-valid plan with pairwise distinct node ids
\* whose `after` references all resolve and whose dependency graph has a
\* cycle (a self-reference included) is rejected with an E_CYCLE error and
\* no normalized_plan.
C1_CycleRejected ==
    (Validated /\ SchemaValid(plan) /\ UniqueIds(plan) /\ RefsResolve(plan)
        /\ HasCycle(plan))
        => /\ ~vresult.valid
           /\ E_CYCLE \in ErrorCodes(vresult)
           /\ vresult.normalized_plan = NoPlan

C1_Witness ==
    /\ Validated /\ SchemaValid(plan) /\ UniqueIds(plan) /\ RefsResolve(plan)
    /\ Len(plan) >= 2
    /\ \E i \in 1..Len(plan) : plan[i].id \in plan[i].after
    /\ E_CYCLE \in ErrorCodes(vresult)

\* C2: for an accepted plan of N nodes, normalized_plan holds exactly the N
\* submitted ids, in topo_order_ids order, with steps exactly 1..N, and
\* every node's step is greater than the step of each node in its `after`.
C2_NormalizedSteps ==
    (Validated /\ vresult.valid) =>
        LET np == vresult.normalized_plan
            N == Len(plan)
        IN /\ Len(np) = N
           /\ Len(vresult.topo_order_ids) = N
           /\ \A i \in 1..N : np[i].id = vresult.topo_order_ids[i] /\ np[i].step = i
           /\ {np[i].id : i \in 1..N} = PlanIds(plan)
           /\ Cardinality(PlanIds(plan)) = N
           /\ \A i \in 1..N : \A d \in np[i].after :
                 \E j \in 1..N : np[j].id = d /\ np[j].step < np[i].step

C2_Witness ==
    /\ Validated /\ vresult.valid
    /\ Len(plan) = 3
    /\ \E i \in 1..3 : Cardinality(plan[i].after) = 2
    /\ \E i \in 1..3 : vresult.normalized_plan[i].id # plan[i].id

\* The plans that differ from p only in the order of the nodes in the array
\* and in the step hints.
Variants(p) ==
    { [i \in 1..Len(p) |-> [p[f[i]] EXCEPT !.step = h[i]]] :
        f \in Perms(1..Len(p)), h \in [1..Len(p) -> {1, Len(p)}] }

\* C3: topo_order_ids and the normalized step of every id depend on the
\* node ids and `after` edges only: a plan that differs only in its step
\* hints or in the order of the nodes in the array gets the same
\* topo_order_ids and the same step for every id.
C3_OrderAndHintsIgnored ==
    (Validated /\ vresult.valid) =>
        \A q \in Variants(plan) :
            LET r == validate_plan(q)
            IN /\ r.valid
               /\ r.topo_order_ids = vresult.topo_order_ids
               /\ StepMap(r) = StepMap(vresult)

C3_Witness ==
    /\ Validated /\ vresult.valid
    /\ Len(plan) = 3
    /\ [i \in 1..3 |-> plan[i].id] # vresult.topo_order_ids
    /\ \E i \in 1..3 : plan[i].after # {}

\* C4: a schema-valid plan in which some `after` names an id no submitted
\* node has is rejected with an E_REF_UNKNOWN error for that reference;
\* neither cycle detection nor normalization yields a result.
C4_UnknownRefRejected ==
    (Validated /\ SchemaValid(plan) /\ ~RefsResolve(plan)) =>
        /\ ~vresult.valid
        /\ \A i \in 1..Len(plan) : \A d \in plan[i].after \ PlanIds(plan) :
              \E k \in 1..Len(vresult.errors) :
                 vresult.errors[k] = Err(E_REF_UNKNOWN, plan[i].id, d)
        /\ E_CYCLE \notin ErrorCodes(vresult)
        /\ E_STEP_ORDER \notin ErrorCodes(vresult)
        /\ vresult.normalized_plan = NoPlan
        /\ vresult.topo_order_ids = NoPlan

C4_Witness ==
    /\ Validated /\ SchemaValid(plan) /\ ~RefsResolve(plan)
    /\ HasCycle(plan)
    /\ \E i \in 1..Len(plan) :
          plan[i].after \cap PlanIds(plan) # {} /\ plan[i].after \ PlanIds(plan) # {}
    /\ E_REF_UNKNOWN \in ErrorCodes(vresult)

\* C5: a plan with a node whose tool is not registered is rejected at the
\* schema stage: the result is invalid, carries the E_SCHEMA error and
\* nothing from the id, reference or cycle checks.
C5_UnknownToolIsSchemaError ==
    (Validated /\ \E i \in 1..Len(plan) : plan[i].tool \notin DOMAIN registry_data)
        => /\ ~vresult.valid
           /\ vresult.errors = <<Err(E_SCHEMA, "", "")>>
           /\ vresult.normalized_plan = NoPlan
           /\ vresult.topo_order_ids = NoPlan

C5_Witness ==
    /\ Validated
    /\ \E i \in 1..Len(plan) : plan[i].tool \notin DOMAIN registry_data
    /\ ~UniqueIds(plan)
    /\ ~RefsResolve(plan)
    /\ HasCycle(plan)
    /\ ErrorCodes(vresult) = {E_SCHEMA}

(***************************************************************************)
(* Properties of DAGParallelController.execute_plan (Spec).                *)
(***************************************************************************)
\* The nodes whose task was dispatched and has not finished.
Running == {n \in DOMAIN task : task[n] = "running"}

\* C6: at every point of execute_plan the number of dispatched and
\* unfinished nodes, and the size of the inflight table, is at most
\* concurrency_max.
C6_ConcurrencyBound ==
    /\ Cardinality(Running) <= concurrency_max
    /\ Cardinality(inflight) <= concurrency_max

C6_Witness ==
    /\ pc = "waiting"
    /\ Cardinality(Running) = concurrency_max
    /\ ready_queue # <<>>
    /\ is_parallel_safe(nodes[Head(ready_queue)].tool)

\* C7: whenever a node whose tool is not parallel_safe is running, no other
\* node is running.
C7_ImpureRunsAlone ==
    \A n \in Running :
        ~is_parallel_safe(nodes[n].tool) => Running = {n}

\* C8: a node is ready, queued or dispatched only when every id of its
\* `after` set is in the completed set, and every id of the completed set
\* belongs to a node whose tool call finished successfully.
C8_DepsBeforeDispatch ==
    /\ \A n \in DOMAIN nodes :
          (nodes[n].status # "pending" \/ task[n] # "none"
              \/ n \in Range(ready_queue))
            => nodes[n].after \subseteq completed
    /\ \A d \in completed : task[d] = "ok" /\ nodes[d].status = "completed"

C8_Witness ==
    \E n \in DOMAIN nodes :
        /\ Cardinality(nodes[n].after) = 2
        /\ task[n] = "running"

\* C9: when no tool call has failed and the deadline has not been reached,
\* execute_plan ends with status completed and nodes_completed equal to
\* nodes_total.
C9_AllSucceedCompletes ==
    (/\ pc = "done"
     /\ ~expired
     /\ \A n \in DOMAIN task : task[n] \in {"none", "running", "ok"})
        => /\ status = "completed"
           /\ Cardinality(completed) = Cardinality(DOMAIN nodes)

\* The control loop has taken a failed result off a finished task.
ObservedFailure ==
    \E i \in 1..Len(results) : nodes[results[i]].result = "fail"

\* C10: once the control loop has observed a failed node, the run is marked
\* failed and every unfinished in-flight task has been cancelled; from then
\* on, until another plan is loaded, no node is dispatched.
C10_FailureStopsRun ==
    [][ /\ ObservedFailure' =>
              /\ failed'
              /\ \A n \in inflight' : task'[n] = "running" => n \in cancelled'
        /\ (failed /\ loads' = loads) =>
              /\ inflight' \subseteq inflight
              /\ \A n \in DOMAIN task : task[n] = "none" => task'[n] = "none"
      ]_vars

C10_Witness ==
    /\ pc = "done"
    /\ ObservedFailure
    /\ cancelled # {}
    /\ ready_queue # <<>>

(***************************************************************************)
(* Properties of CircuitBreaker (SpecB).                                   *)
(***************************************************************************)

\* successes / failures summed over all buckets
WindowSuccesses(bs) == sum_field(bs, 1, "s")
WindowFailures(bs) == sum_field(bs, 1, "f")
WindowTotal(bs) == WindowSuccesses(bs) + WindowFailures(bs)

Recorded == records' = records + 1

\* C11: an outcome recorded while CLOSED opens the breaker exactly when,
\* counting that outcome, the window total is at least min_requests and
\* failures/total is at least failure_threshold; an allow() made right after
\* the transition returns false.
C11_OpensExactlyAtThreshold ==
    [][ (state = CLOSED /\ Recorded) =>
          /\ (state' = OPEN) <=>
                /\ WindowTotal(buckets') >= min_requests
                /\ WindowFailures(buckets') * failure_threshold_den
                      >= failure_threshold_num * WindowTotal(buckets')
          /\ (state' = OPEN) =>
                ~allow(Breaker(buckets', state', open_since'), now').ret ]_vars

\* outcomes with two successes and three failures opened the breaker on the
\* fifth record, and the allow() that followed was refused
C11_Witness ==
    /\ state = OPEN
    /\ records = min_requests
    /\ WindowSuccesses(buckets) = 2
    /\ WindowFailures(buckets) = 3
    /\ allowed = "false"

\* C12: between the opening of the breaker and the next recorded outcome at
\* most one allow() call is answered True (the HALF_OPEN probe), and none
\* before the cooldown has elapsed.
C12_SingleProbe ==
    /\ probes <= 1
    /\ (state = OPEN /\ now - open_since < cooldown_seconds) => probes = 0

\* C13: a success recorded in HALF_OPEN leaves the breaker CLOSED with every
\* bucket at zero successes and zero failures.
C13_ProbeSuccessCloses ==
    [][ (state = HALF_OPEN /\ Recorded /\ outcome' = "success") =>
          /\ state' = CLOSED
          /\ \A i \in 1..Len(buckets') :
                buckets'[i].s = 0 /\ buckets'[i].f = 0 ]_vars

(***************************************************************************)
(* Properties of AgentController._execute_step_with_retry (SpecS).         *)
(***************************************************************************)

\* the current step execution repeats a pure step that succeeded before
RepeatsPureSuccess ==
    /\ steps > 0
    /\ get_tool_purity(tool_name) = "pure"
    /\ prior # None

\* C14 as stated: every step execution that repeats a successful pure step
\* returns the cached payload, without invoking the tool and without a record
\* on the breaker.
C14_AsStated ==
    RepeatsPureSuccess =>
        /\ spc = "idle"
        /\ step_result.success
        /\ step_result.output = prior
        /\ invocations = 0
        /\ recorded = 0

\* C14: a step execution that repeats a successful pure step never invokes
\* the tool and records nothing on the breaker; when the breaker admits it,
\* it returns the cached payload as a cache hit, and otherwise it returns
\* E_CIRCUIT_OPEN.
C14_CacheHitWhenAdmitted ==
    RepeatsPureSuccess =>
        /\ spc = "idle"
        /\ invocations = 0
        /\ recorded = 0
        /\ IF step_result.blocked
           THEN ~step_result.success /\ step_result.code = E_CIRCUIT_OPEN
           ELSE /\ step_result.success
                /\ step_result.cache_hit
                /\ step_result.output = prior

\* a cache hit for an input given in the key order json.dumps would not
\* produce, and a repeat refused by the breaker
C14_Witness ==
    /\ RepeatsPureSuccess
    /\ step_result.cache_hit
    /\ Len(tool_input) = 2
    /\ dumps_sorted(tool_input) # tool_input

(***************************************************************************)
(* Properties of the legacy executor's idempotency keys (SpecL).           *)
(***************************************************************************)

\* the tool call did not succeed by the tool's own account: it raised,
\* returned something that is not JSON, or returned "success": false
ToolFailed(e) == e.kind # "json" \/ e.success = "false"

\* C15: a step execution whose idempotency key is already marked complete is
\* recognised as a duplicate and returns without invoking the tool, and a
\* tool call that fails leaves the set of completed keys as it was.
C15_IdempotentOnce ==
    [][ /\ ( /\ steps' = steps + 1
             /\ requires_idempotency_key(tool_name')
             /\ is_duplicate_operation(idempotency_keys,
                    generate_idempotency_key(user_request', step_number',
                                             tool_name', tool_input')) )
           => ( /\ spc' = "idle"
                /\ invocations' = 0
                /\ step_result'.idempotent_skip )
        /\ ( spc = "tool" /\ spc' # "tool" /\ ToolFailed(envelope') )
           => idempotency_keys' = idempotency_keys ]_vars

\* C16: after a load_plan call that validate_plan rejected, the controller
\* has no nodes, an empty ready queue, nothing in flight and an empty completed
\* set, and it stays so through every later execute_plan call: that call
\* launches no task and collects no result.
C16_RejectedLoadLeavesEmpty ==
    last_load = "rejected" =>
        /\ nodes = NoNodes
        /\ ready_queue = <<>>
        /\ inflight = {}
        /\ completed = {}
        /\ ~failed
        /\ DOMAIN task = {}
        /\ results = <<>>

\* an execute_plan call has returned after a rejected load_plan that replaced
\* a plan some of whose tasks were still running
C16_Witness ==
    /\ last_load = "rejected"
    /\ pc = "done"
    /\ loads = 2
    /\ orphans # {}

(***************************************************************************)
(* core/validator.py: validate_executor_step                               *)
(*                                                                         *)
(* A JSON object handed as `input` is the set of its <<key, JSON type of   *)
(* the value>> pairs.                                                      *)
(***************************************************************************)
\* input_schema of each tool of the registry fixture: required keys, and
\* properties as <<key, type>> pairs; additionalProperties is False in all
input_schemas ==
    [t \in DOMAIN registry_data |->
        CASE t = "add_task" ->
                [required |-> {"description"},
                 properties |-> {<<"description", "string">>}]
          [] t = "list_tasks" -> [required |-> {}, properties |-> {}]
          [] OTHER -> [required |-> {"text"},
                       properties |-> {<<"text", "string">>}]]

\* _schema_validate(input_obj, input_schema): one E_SCHEMA error when a
\* required key is missing, a key is not a property, or a value has another
\* type than its property
input_schema_validate(input_obj, input_schema) ==
    IF /\ \A k \in input_schema.required : \E kv \in input_obj : kv[1] = k
       /\ input_obj \subseteq input_schema.properties
    THEN <<>>
    ELSE <<Err(E_SCHEMA, "", "")>>

\* _schema_validate(step_json, _build_executor_schema(allowed_tools))
executor_schema_validate(m, allowed_tools) ==
    IF /\ {"next_step", "remaining_steps", "type"} \subseteq m.present
       /\ m.next_step >= 1
       /\ m.remaining_steps >= 0
       /\ m.type \in {"tool_call", "final"}
       /\ "tool" \in m.present => m.tool \in allowed_tools
       /\ m.type = "tool_call" => {"tool", "input"} \subseteq m.present
       /\ m.type = "final" => "final_answer" \in m.present
    THEN <<>>
    ELSE <<Err(E_SCHEMA, "", "")>>

E_READINESS == "E_READINESS"

\* ready_candidates without the test of the executing ids
ready_candidates_ignoring_executing(plan_nodes, tool, done, executing) ==
    SelectSeq(plan_nodes, LAMBDA n : /\ n.tool = tool
                                     /\ n.id \notin done
                                     /\ \A dep \in n.after : dep \in done)

\* the loop that collects ready_candidates: nodes of the tool, neither
\* completed nor executing, with every dep completed
ready_candidates(plan_nodes, tool, done, executing) ==
    SelectSeq(plan_nodes, LAMBDA n : /\ n.tool = tool
                                     /\ n.id \notin done
                                     /\ n.id \notin executing
                                     /\ \A dep \in n.after : dep \in done)

\* validate_executor_step after the executor schema passed, type "final"
validate_final(cp) ==
    IF Cardinality(cp.completed_ids) # Len(cp.plan)
    THEN ValidationResult(FALSE, <<Err(E_STEP_ORDER, "", "")>>, NoPlan, NoPlan)
    ELSE ValidationResult(TRUE, <<>>, NoPlan, NoPlan)

\* validate_executor_step after the executor schema passed, type "tool_call"
validate_tool_call(m, cp) ==
    IF m.tool \notin DOMAIN registry_data
    THEN ValidationResult(FALSE, <<Err(E_TOOL_UNKNOWN, "", "")>>, NoPlan, NoPlan)
    ELSE IF ready_candidates(cp.plan, m.tool, cp.completed_ids,
                             cp.executing_ids) = <<>>
    THEN ValidationResult(FALSE, <<Err(E_READINESS, "", "")>>, NoPlan, NoPlan)
    ELSE IF input_schema_validate(
                IF "input" \in m.present THEN m.input ELSE {},
                input_schemas[m.tool]) # <<>>
    THEN ValidationResult(FALSE, <<Err(E_SCHEMA, "", "")>>, NoPlan, NoPlan)
    ELSE ValidationResult(TRUE, <<>>, NoPlan, NoPlan)

\* validate_executor_step(step_json, current_plan, tool_registry)
validate_executor_step(m, cp) ==
    IF DOMAIN registry_data = {}
    THEN ValidationResult(FALSE, <<Err(E_SCHEMA, "", "")>>, NoPlan, NoPlan)
    ELSE IF executor_schema_validate(m, DOMAIN registry_data) # <<>>
    THEN ValidationResult(FALSE, <<Err(E_SCHEMA, "", "")>>, NoPlan, NoPlan)
    ELSE IF m.type = "final" THEN validate_final(cp)
    ELSE validate_tool_call(m, cp)

(***************************************************************************)
(* SpecE: validate_executor_step applied by a caller to a normalized plan, *)
(* the completed and executing ids it lists, and an executor message.      *)
(***************************************************************************)
StepNode(id, step, tool, input, after) ==
    [id |-> id, step |-> step, tool |-> tool, input |-> input, after |-> after]

\* tools and inputs of the nodes drawn, each input valid for its tool
NodeCalls ==
    { <<"add_task", {<<"description", "string">>}>>,
      <<"calculate_percentage", {<<"text", "string">>}>> }

\* The raw plan is built node by node, as PlannerAppend does, with inputs
\* and with ids that differ from one another.
PlannerNode(calls) ==
    /\ epc = "planning"
    /\ Len(plan) < MaxNodes
    /\ \E id \in Ids, call \in calls, after \in SUBSET Ids :
          /\ \A i \in 1..Len(plan) : plan[i].id # id
          /\ EdgeCount(plan) + Cardinality(after) <= MaxEdges
          /\ plan' = Append(plan, StepNode(id, Len(plan) + 1, call[1],
                                           call[2], after))
    /\ UNCHANGED <<xvars, rvars, dvars, vresult, vphase>>

PlannerE == PlannerNode(NodeCalls)

\* make_plan: res = validate_plan(raw); assert res.valid;
\* return res.normalized_plan; the caller starts with nothing completed
MakePlan ==
    /\ epc = "planning"
    /\ validate_plan(plan).valid
    /\ current_plan' = [plan |-> validate_plan(plan).normalized_plan,
                        completed_ids |-> {}, executing_ids |-> {}]
    /\ epc' = "loaded"
    /\ UNCHANGED <<vvars, dvars, rvars, avars, bvars, svars, lvars, step_json, eresult>>

\* make_plan: the assertion on res.valid fails
MakePlanRejected ==
    /\ epc = "planning"
    /\ ~validate_plan(plan).valid
    /\ epc' = "rejected"
    /\ UNCHANGED <<vvars, dvars, rvars, avars, bvars, svars, lvars, current_plan,
                   step_json, eresult>>

Marks == Cardinality(current_plan.completed_ids)
            + Cardinality(current_plan.executing_ids)

\* the caller lists one more id in completed_ids
MarkCompleted(x) ==
    /\ epc = "loaded"
    /\ Marks < MaxMarks
    /\ x \notin current_plan.completed_ids
    /\ current_plan' = [current_plan EXCEPT !.completed_ids = @ \cup {x}]
    /\ UNCHANGED <<vvars, dvars, rvars, avars, bvars, svars, lvars, step_json, eresult,
                   epc>>

\* the caller lists one more id in executing_ids
MarkExecuting(x) ==
    /\ epc = "loaded"
    /\ Marks < MaxMarks
    /\ x \notin current_plan.executing_ids
    /\ current_plan' = [current_plan EXCEPT !.executing_ids = @ \cup {x}]
    /\ UNCHANGED <<vvars, dvars, rvars, avars, bvars, svars, lvars, step_json, eresult,
                   epc>>

\* inputs an executor message may carry
MessageInputs ==
    { {<<"description", "string">>}, {<<"description", "integer">>},
      {<<"text", "string">>}, {} }

Required == {"next_step", "remaining_steps", "type"}

\* executor messages handed to validate_executor_step: tool calls of the two
\* tools with each input, and messages the executor schema rejects
Messages ==
    { StepMessage(1, 0, "tool_call", t, i, Required \cup {"tool", "input"}) :
        t \in {"add_task", "calculate_percentage"}, i \in MessageInputs }
    \cup
    { StepMessage(1, 0, "tool_call", "foo_tool", {}, Required \cup {"tool", "input"}),
      StepMessage(1, 0, "tool_call", "add_task", {}, Required \cup {"tool"}),
      StepMessage(0, 0, "tool_call", "add_task", {<<"description", "string">>},
                  Required \cup {"tool", "input"}),
      StepMessage(1, 0, "final", "none", {}, Required \cup {"final_answer"}),
      StepMessage(1, 0, "final", "none", {}, Required) }

\* result = validate_executor_step(executor_step, current_plan, registry)
ValidateStep(m) ==
    /\ epc = "loaded"
    /\ step_json' = m
    /\ eresult' = validate_executor_step(m, current_plan)
    /\ epc' = "validated"
    /\ UNCHANGED <<vvars, dvars, rvars, avars, bvars, svars, lvars, current_plan>>

InitE ==
    /\ ValidatorOff
    /\ pc = "off"
    /\ DagOff
    /\ BreakerOff
    /\ StepOff
    /\ LegacyOff
    /\ AgentOff
    /\ CacheOff
    /\ current_plan = [plan |-> <<>>, completed_ids |-> {}, executing_ids |-> {}]
    /\ step_json = NoMessage
    /\ eresult = NoResult
    /\ epc = "planning"

NextE ==
    \/ PlannerE
    \/ MakePlan
    \/ MakePlanRejected
    \/ \E x \in Ids : MarkCompleted(x)
    \/ \E x \in Ids : MarkExecuting(x)
    \/ \E m \in Messages : ValidateStep(m)

SpecE == InitE /\ [][NextE]_vars

\* the message validated is a tool_call that the executor schema accepts
SchemaValidToolCall ==
    /\ epc = "validated"
    /\ step_json.type = "tool_call"
    /\ step_json.next_step >= 1
    /\ step_json.remaining_steps >= 0
    /\ {"tool", "input"} \subseteq step_json.present
    /\ step_json.tool \in DOMAIN registry_data

\* (a) some plan node with the tool is neither completed nor executing and
\* has every id of its `after` in completed_ids
SomeNodeReady ==
    \E i \in 1..Len(current_plan.plan) :
        /\ current_plan.plan[i].tool = step_json.tool
        /\ current_plan.plan[i].id \notin current_plan.completed_ids
        /\ current_plan.plan[i].id \notin current_plan.executing_ids
        /\ current_plan.plan[i].after \subseteq current_plan.completed_ids

\* (b) the input has every required key, no key beyond the properties, and
\* values of the property types
InputSatisfiesSchema ==
    /\ \A k \in input_schemas[step_json.tool].required :
          \E v \in {"string", "integer"} : <<k, v>> \in step_json.input
    /\ \A kv \in step_json.input :
          kv \in input_schemas[step_json.tool].properties

\* C17: a schema-valid tool_call is accepted exactly when (a) some node of
\* the tool is ready and (b) the input satisfies the tool's input_schema; the
\* error is E_READINESS when (a) fails and E_SCHEMA when (a) holds and (b)
\* fails.
C17_ToolCallAccepted ==
    SchemaValidToolCall =>
        /\ eresult.valid <=> (SomeNodeReady /\ InputSatisfiesSchema)
        /\ ~SomeNodeReady => eresult.errors = <<Err(E_READINESS, "", "")>>
        /\ (SomeNodeReady /\ ~InputSatisfiesSchema) =>
              eresult.errors = <<Err(E_SCHEMA, "", "")>>

\* a tool_call was rejected with E_READINESS although its input is valid and
\* a node of its tool has its dependencies completed: that node is executing
C17_Witness ==
    /\ SchemaValidToolCall
    /\ InputSatisfiesSchema
    /\ eresult.errors = <<Err(E_READINESS, "", "")>>
    /\ \E i \in 1..Len(current_plan.plan) :
          /\ current_plan.plan[i].tool = step_json.tool
          /\ current_plan.plan[i].id \in current_plan.executing_ids
          /\ current_plan.plan[i].id \notin current_plan.completed_ids
          /\ current_plan.plan[i].after \subseteq current_plan.completed_ids
          /\ current_plan.plan[i].after # {}

\* C18: a `final` message is accepted only if every node id of the plan is in
\* completed_ids.
C18_FinalNeedsAllCompleted ==
    (/\ epc = "validated"
     /\ step_json.type = "final"
     /\ eresult.valid)
        => \A i \in 1..Len(current_plan.plan) :
              current_plan.plan[i].id \in current_plan.completed_ids

(***************************************************************************)
(* SpecX: the sequential executor of the pipeline tests (execute_plan in   *)
(* tests/integration/test_agent_pipeline.py), one loop iteration a step.   *)
(***************************************************************************)
\* nodes drawn for the executor: also an add_task without its description
ExecutorCalls == NodeCalls \cup { <<"add_task", {}>> }

PlannerX == PlannerNode(ExecutorCalls)

\* the ready list with the completed nodes left in
sequential_ready_with_completed(plan_nodes, done) ==
    SelectSeq(plan_nodes, LAMBDA n : \A d \in n.after : d \in done)

\* ready = [n for n in plan if n["id"] not in completed
\*          and all(d in completed for d in n.get("after", []))]
sequential_ready(plan_nodes, done) ==
    SelectSeq(plan_nodes, LAMBDA n : /\ n.id \notin done
                                     /\ \A d \in n.after : d \in done)

\* sorted(ready, key=lambda x: (x["step"], x["id"]))[0]
first_ready(ready) ==
    CHOOSE n \in Range(ready) :
        \A m \in Range(ready) :
            \/ n.step < m.step
            \/ n.step = m.step /\ IdRank(n.id) <= IdRank(m.id)

\* step_msg built for node n
step_msg(n, cp) ==
    StepMessage(n.step, Len(cp.plan) - Cardinality(cp.completed_ids) - 1,
                "tool_call", n.tool, n.input, Required \cup {"tool", "input"})

\* the rest of one iteration once node n is picked: validate the message,
\* run the tool (ok: the runner's answer, after the retry if any)
executor_run(n, m, val, cp, ok) ==
    IF ~val.valid
    THEN [current_plan |-> cp, step_json |-> m, eresult |-> val,
          epc |-> "invalid_step"]
    ELSE IF ~ok
    THEN [current_plan |-> cp, step_json |-> m, eresult |-> val,
          epc |-> "failed"]
    ELSE [current_plan |-> [cp EXCEPT !.completed_ids = @ \cup {n.id}],
          step_json |-> m, eresult |-> val, epc |-> "loaded"]

\* one iteration of the while loop with node n picked
executor_node(n, cp, ok) ==
    executor_run(n, step_msg(n, cp),
                 validate_executor_step(step_msg(n, cp), cp), cp, ok)

\* one iteration of the while loop, given the ready list
executor_iteration(ready, cp, m, val, ok) ==
    IF ready = <<>>
    THEN [current_plan |-> cp, step_json |-> m, eresult |-> val,
          epc |-> "no_ready"]
    ELSE executor_node(first_ready(ready), cp, ok)

ExecutorEffect(r) ==
    /\ current_plan' = r.current_plan
    /\ step_json' = r.step_json
    /\ eresult' = r.eresult
    /\ epc' = r.epc

\* while len(completed) < len(plan): one iteration, the deadline not hit
ExecutorStep(ok) ==
    /\ epc = "loaded"
    /\ Cardinality(current_plan.completed_ids) < Len(current_plan.plan)
    /\ ExecutorEffect(executor_iteration(
            sequential_ready(current_plan.plan, current_plan.completed_ids),
            current_plan, step_json, eresult, ok))
    /\ UNCHANGED <<vvars, dvars, rvars, avars, bvars, svars, lvars>>

\* the deadline check at the top of an iteration fires
ExecutorDeadline ==
    /\ epc = "loaded"
    /\ Cardinality(current_plan.completed_ids) < Len(current_plan.plan)
    /\ epc' = "deadline"
    /\ UNCHANGED <<vvars, dvars, rvars, avars, bvars, svars, lvars, current_plan,
                   step_json, eresult>>

\* the while condition is false: return {"ok": True, ...}
ExecutorDone ==
    /\ epc = "loaded"
    /\ Cardinality(current_plan.completed_ids) >= Len(current_plan.plan)
    /\ epc' = "done"
    /\ UNCHANGED <<vvars, dvars, rvars, avars, bvars, svars, lvars, current_plan,
                   step_json, eresult>>

NextX ==
    \/ PlannerX
    \/ MakePlan
    \/ MakePlanRejected
    \/ \E ok \in BOOLEAN : ExecutorStep(ok)
    \/ ExecutorDeadline
    \/ ExecutorDone

SpecX == InitE /\ [][NextX]_vars

\* every node of the plan in hand carries an input valid for its tool
InputsValid ==
    \A i \in 1..Len(current_plan.plan) :
        input_schema_validate(current_plan.plan[i].input,
                              input_schemas[current_plan.plan[i].tool]) = <<>>

PlanIdsOf(cp) == {cp.plan[i].id : i \in 1..Len(cp.plan)}

\* C19: on a plan validate_plan accepted, with schema-valid inputs, the
\* sequential executor finds a ready node whenever the plan is incomplete,
\* the tool_call built for the node it picks passes validate_executor_step,
\* each successful step completes one more node, and when the loop ends by
\* itself every node is completed.
C19_SequentialExecutorCompletes ==
    /\ [](InputsValid =>
            /\ epc \notin {"no_ready", "invalid_step"}
            /\ (/\ epc = "loaded"
                /\ Cardinality(current_plan.completed_ids) < Len(current_plan.plan))
                  => sequential_ready(current_plan.plan,
                                      current_plan.completed_ids) # <<>>
            /\ current_plan.completed_ids \subseteq PlanIdsOf(current_plan)
            /\ epc = "done" =>
                  /\ current_plan.completed_ids = PlanIdsOf(current_plan)
                  /\ Cardinality(current_plan.completed_ids)
                        = Len(current_plan.plan))
    /\ [][(InputsValid /\ ExecutorStep(TRUE)) =>
            /\ eresult'.valid
            /\ Cardinality(current_plan'.completed_ids)
                  = Cardinality(current_plan.completed_ids) + 1]_vars

\* the executor completed a three-node plan in which one node waits for the
\* two others
C19_Witness ==
    /\ epc = "done"
    /\ InputsValid
    /\ Len(current_plan.plan) = 3
    /\ Cardinality(current_plan.completed_ids) = 3
    /\ \E i \in 1..3 : Cardinality(current_plan.plan[i].after) = 2

(***************************************************************************)
(* Properties of _topo_sort (SpecV).                                       *)
(***************************************************************************)
\* the ids of order placed before position k
PlacedBefore(order, k) == {order[j] : j \in 1..(k - 1)}

\* the `after` ids of the node with id x in plan p
DepsOf(p, x) == UNION {p[i].after : i \in {j \in 1..Len(p) : p[j].id = x}}

\* order lists every id of p once, each after all its dependencies
IsTopoOrder(p, order) ==
    /\ Len(order) = Len(p)
    /\ Range(order) = PlanIds(p)
    /\ \A k \in 1..Len(order) : DepsOf(p, order[k]) \subseteq PlacedBefore(order, k)

\* a is not after b in the lexicographic order of id sequences of one length
LexLeq(a, b) ==
    \/ a = b
    \/ \E k \in 1..Len(a) :
          /\ \A j \in 1..(k - 1) : a[j] = b[j]
          /\ IdRank(a[k]) < IdRank(b[k])

\* C20: topo_order_ids of an accepted plan is a topological order that holds
\* at every position the smallest id among the nodes not yet placed whose
\* dependencies are all placed; no topological order of the plan is
\* lexicographically smaller.
C20_SmallestTopoOrder ==
    (Validated /\ vresult.valid) =>
        /\ IsTopoOrder(plan, vresult.topo_order_ids)
        /\ \A k \in 1..Len(vresult.topo_order_ids) :
              \A y \in PlanIds(plan) \ PlacedBefore(vresult.topo_order_ids, k) :
                  DepsOf(plan, y) \subseteq PlacedBefore(vresult.topo_order_ids, k)
                     => IdRank(vresult.topo_order_ids[k]) <= IdRank(y)
        /\ \A f \in Perms(1..Len(plan)) :
              LET order == [i \in 1..Len(plan) |-> plan[f[i]].id]
              IN IsTopoOrder(plan, order)
                    => LexLeq(vresult.topo_order_ids, order)

\* s1 waits for s2 and is placed before s3, which was a candidate from the
\* start
C20_Witness ==
    /\ Validated /\ vresult.valid
    /\ vresult.topo_order_ids = <<"s2", "s1", "s3">>
    /\ \E i \in 1..Len(plan) : plan[i].id = "s1" /\ plan[i].after = {"s2"}
    /\ \E i \in 1..Len(plan) : plan[i].id = "s3" /\ plan[i].after = {}

(***************************************************************************)
(* SpecF: one load_plan and execute_plan on a plan of FairPlans, with the   *)
(* scheduling the event loop gives: the coroutine of execute_plan goes on  *)
(* whenever it can, and every awaited tool call returns. The deadline is   *)
(* not forced.                                                             *)
(***************************************************************************)
ControllerStep ==
    \/ ExecuteStart
    \/ LoopExit
    \/ LoopNoBatch
    \/ SleepReturn
    \/ LoopLaunch
    \/ WaitReturn
    \/ WaitTimeout
    \/ Finish

ToolTerminates(n) == \E o \in ToolOutcomes : TaskFinish(n, o)

\* plans handed to load_plan under SpecF: two pure calculations and an
\* impure add_task, independent of one another or the add_task after one
\* calculation
FairPlans ==
    { <<PlanNode("s1", 1, "calculate_percentage", {}),
        PlanNode("s2", 2, "calculate_percentage", {}),
        PlanNode("s3", 3, "add_task", {})>>,
      <<PlanNode("s1", 1, "calculate_percentage", {}),
        PlanNode("s2", 2, "calculate_percentage", {}),
        PlanNode("s3", 3, "add_task", {"s1"})>> }

InitF ==
    /\ plan \in FairPlans
    /\ vresult = NoResult
    /\ vphase = "off"
    /\ pc = "planning"
    /\ DagOff
    /\ ExecutorOff
    /\ BreakerOff
    /\ StepOff
    /\ LegacyOff
    /\ AgentOff
    /\ CacheOff

NextF ==
    \/ LoadPlan
    \/ ExecuteStart
    \/ Tick
    \/ LoopExit
    \/ LoopNoBatch
    \/ SleepReturn
    \/ LoopLaunch
    \/ \E n \in Ids, o \in ToolOutcomes : TaskFinish(n, o)
    \/ \E n \in Ids : TaskCancelled(n)
    \/ WaitReturn
    \/ WaitTimeout
    \/ Finish

SpecF ==
    /\ InitF
    /\ [][NextF]_vars
    /\ WF_vars(ControllerStep)
    /\ \A n \in Ids : WF_vars(ToolTerminates(n))

\* node n is non-parallel-safe, waits on the ready queue of a running
\* execute_plan, and every task in flight has finished
RequeuedBehindFinished(n) ==
    /\ pc \in {"loop", "sleeping"}
    /\ ~expired
    /\ ~failed
    /\ n \in Range(ready_queue)
    /\ ~is_parallel_safe(nodes[n].tool)
    /\ inflight # {}
    /\ \A x \in inflight : task[x] = "ok"

\* n was dispatched, or the deadline was reached, or the run has failed
DispatchedOrExpired(n) ==
    \/ expired
    \/ failed
    \/ (n \in DOMAIN task /\ task[n] # "none")

\* C21: a non-parallel-safe node that waits on the ready queue behind tasks
\* in flight is dispatched once those tasks have finished (successfully),
\* unless the deadline is reached or the run fails.
C21_RequeuedEventuallyDispatched ==
    \A n \in Ids : RequeuedBehindFinished(n) ~> DispatchedOrExpired(n)

(***************************************************************************)
(* Step execution and the breaker of the step's tool.                      *)
(***************************************************************************)
\* the breaker of `tool` would deny a request made at time t
BreakerDenies(bk, tool, t) ==
    /\ tool \in DOMAIN bk
    /\ bk[tool].state = OPEN
    /\ t - bk[tool].open_since < cooldown_seconds

\* a step of _execute_step_with_retry in which _execute_tool is called:
\* the first attempt (StepCall) or a retry (BackoffDone)
ToolInvoked == spc' = "tool" /\ spc # "tool"

\* C22: the underlying tool is never invoked while its breaker is OPEN with
\* the cooldown not yet elapsed, by a first attempt or by a retry attempt
C22_NoInvocationWhileOpen ==
    [][ToolInvoked => ~BreakerDenies(breakers', tool_name', now')]_vars

(***************************************************************************)
(* SpecR: PersonalAssistantAgent with its AgentController: execute_request *)
(* runs the steps of the planned request one after the other through       *)
(* _execute_step_with_retry; reset_state is called between requests.       *)
(***************************************************************************)
\* plans _create_validated_plan builds: "add task", "add task ... and
\* calculate ... %", "calculate ... %"
RequestPlans ==
    { <<StepNode("s1", 1, "add_task", <<Item("description", "z")>>, {})>>,
      <<StepNode("s1", 1, "add_task", <<Item("description", "z")>>, {}),
        StepNode("s2", 2, "calculate_percentage", <<Item("text", "x")>>, {"s1"})>>,
      <<StepNode("s1", 1, "calculate_percentage", <<Item("text", "x")>>, {})>> }

InitR ==
    /\ ValidatorOff
    /\ pc = "off"
    /\ DagOff
    /\ ExecutorOff
    /\ LegacyOff
    /\ now = 0
    /\ buckets = <<>>
    /\ state = "off"
    /\ open_since = 0
    /\ allowed = "none"
    /\ probes = 0
    /\ outcome = "none"
    /\ records = 0
    /\ spc = "idle"
    /\ tool_name = "none"
    /\ tool_input = <<>>
    /\ attempt = 0
    /\ step_result = NoStepResult
    /\ pure_cache = NoNodes
    /\ breakers = NoNodes
    /\ invocations = 0
    /\ recorded = 0
    /\ executed = NoNodes
    /\ prior = "none"
    /\ steps = 0
    /\ agent_registry = 0
    /\ rpc = "ready"
    /\ step_index = 0
    /\ request_results = <<>>
    /\ start_time = 0
    /\ CacheOff

\* seconds an awaited tool call or backoff sleep of a request can take
RequestClockSteps == {15}

\* what _execute_tool does in a request: return a success envelope, return a
\* failure envelope without error_code, or raise
RequestOutcomes ==
    {o \in StepOutcomes : o.kind \in {"success", "raise"} \/ o.code = E_TOOL_FAILED}

\* time passes while execute_request awaits its tool
ClockAdvanceR(d) ==
    /\ rpc = "loop"
    /\ spc = "tool"
    /\ now + d <= MaxRequestTime
    /\ now' = now + d
    /\ UNCHANGED <<vvars, dvars, rvars, avars, evars, lvars, cvars, svars>>

\* execute_request up to the loop: start_time, the validated plan, results = []
RequestStart(p) ==
    /\ rpc = "ready"
    /\ steps + Len(p) <= MaxRequestSteps
    /\ plan' = p
    /\ start_time' = now
    /\ request_results' = <<>>
    /\ step_index' = 0
    /\ rpc' = "loop"
    /\ UNCHANGED <<vresult, vphase, dvars, rvars, evars, lvars, bvars, svars,
                   agent_registry, pvars>>

\* one iteration of the loop over plan["plan"] up to its first await: the
\* deadline check, then _execute_step_with_retry
RequestStep ==
    /\ rpc = "loop"
    /\ spc = "idle"
    /\ step_index < Len(plan)
    /\ IF now - start_time > overall_deadline
       THEN /\ rpc' = "ready"
            /\ UNCHANGED <<svars, step_index, request_results>>
       ELSE /\ StepCallEffect(plan[step_index + 1].tool, plan[step_index + 1].input)
            /\ step_index' = step_index + 1
            /\ request_results' = IF spc' = "idle"
                                  THEN Append(request_results, step_result')
                                  ELSE request_results
            /\ rpc' = rpc
    /\ UNCHANGED <<vvars, dvars, rvars, evars, lvars, bvars, agent_registry, start_time>>

\* the awaited tool call of the current step returns
RequestToolReturn(o) ==
    /\ rpc = "loop"
    /\ ToolReturnEffect(o)
    /\ request_results' = IF spc' = "idle"
                          THEN Append(request_results, step_result')
                          ELSE request_results
    /\ UNCHANGED <<vvars, dvars, rvars, evars, lvars, bvars, agent_registry, rpc,
                   step_index, start_time>>

RequestBackoffDone ==
    /\ rpc = "loop"
    /\ BackoffDoneEffect
    /\ UNCHANGED <<vvars, dvars, rvars, avars, evars, lvars, bvars>>

\* the loop is over: _generate_final_response and return
RequestReturn ==
    /\ rpc = "loop"
    /\ spc = "idle"
    /\ step_index = Len(plan)
    /\ rpc' = "ready"
    /\ UNCHANGED <<vvars, dvars, rvars, evars, lvars, bvars, svars, agent_registry,
                   step_index, request_results, start_time>>

\* PersonalAssistantAgent.reset_state: the caches of the shared tool registry
\* are cleared in place; self.circuit_breakers of the agent is bound to a new
\* registry, the controller keeps the registry it was constructed with
reset_state ==
    /\ rpc = "ready"
    /\ agent_registry < MaxResets
    /\ pure_cache' = NoNodes
    /\ agent_registry' = agent_registry + 1
    /\ UNCHANGED <<vvars, dvars, rvars, evars, lvars, bvars, spc, tool_name,
                   tool_input, attempt, step_result, breakers, invocations,
                   recorded, executed, prior, steps, rpc, step_index,
                   request_results, start_time>>

NextR ==
    \/ \E d \in RequestClockSteps : ClockAdvanceR(d)
    \/ \E p \in RequestPlans : RequestStart(p)
    \/ RequestStep
    \/ \E o \in RequestOutcomes : RequestToolReturn(o)
    \/ RequestBackoffDone
    \/ RequestReturn
    \/ reset_state

SpecR == InitR /\ [][NextR]_vars

\* a step of the running request ended in the terminal failure E_TOOL_FAILED
TerminalFailure ==
    \E k \in 1..Len(request_results) :
        ~request_results[k].success /\ request_results[k].code = E_TOOL_FAILED

\* the loop of execute_request hands its next step to _execute_step_with_retry
NextStepExecuted == rpc = "loop" /\ step_index' = step_index + 1

\* C24: in execute_request a step that ends in E_TOOL_FAILED aborts the run:
\* no later step of the plan is executed after it
C24_FailedStepAbortsRun ==
    [][TerminalFailure => ~NextStepExecuted]_vars

\* the tools a request can name
RequestTools == UNION {{p[k].tool : k \in 1..Len(p)} : p \in RequestPlans}

\* a breaker in the state of a new one: CLOSED, no outcome counted
ClosedWithZeroCounts(br) ==
    /\ br.state = CLOSED
    /\ sum_field(br.buckets, 1, "s") = 0
    /\ sum_field(br.buckets, 1, "f") = 0

\* the breaker _execute_step_with_retry consults for `tool`:
\* self.circuit_breakers of the controller
consulted_breaker(bk, tool, t) == get_breaker(bk, tool, t)

ResetDone == agent_registry' # agent_registry

\* C26: after reset_state, for every tool the breaker consulted by request
\* execution is CLOSED with zero counts
C26_ResetClearsBreakers ==
    [][ResetDone => \A tool \in RequestTools :
                        ClosedWithZeroCounts(consulted_breaker(breakers', tool, now'))]_vars

(***************************************************************************)
(* SpecD: DAGParallelController.execute_plan in a process whose            *)
(* ToolCircuitBreakerRegistry has already recorded outcomes: the plans of  *)
(* SpecF, run with every breaker new or with the breaker of one tool       *)
(* tripped at time 0.                                                      *)
(***************************************************************************)
\* the breaker after k failures recorded at time t
RECURSIVE record_failures(_, _, _)
record_failures(br, t, k) ==
    IF k = 0 THEN br ELSE record_failures(on_result(br, t, FALSE), t, k - 1)

\* the registries the run starts with
ProcessRegistries ==
    {NoNodes}
    \cup { Put(NoNodes, tool,
               record_failures(Breaker(fresh_buckets(0), CLOSED, 0), 0, min_requests)) :
           tool \in {"add_task", "calculate_percentage"} }

InitD ==
    /\ plan \in FairPlans
    /\ vresult = NoResult
    /\ vphase = "off"
    /\ pc = "planning"
    /\ DagOff
    /\ ExecutorOff
    /\ BreakerOff
    /\ LegacyOff
    /\ AgentOff
    /\ CacheOff
    /\ spc = "off"
    /\ tool_name = "none"
    /\ tool_input = <<>>
    /\ attempt = 0
    /\ step_result = NoStepResult
    /\ pure_cache = NoNodes
    /\ breakers \in ProcessRegistries
    /\ invocations = 0
    /\ recorded = 0
    /\ executed = NoNodes
    /\ prior = "none"
    /\ steps = 0

\* every result document a tool can hand back: "success" true, false or
\* absent, with or without an "error" field; or an exception
ResultDocuments ==
    { [raised |-> FALSE, success |-> sc, error |-> e] :
          sc \in {"true", "false", "absent"}, e \in BOOLEAN }
    \cup { [raised |-> TRUE, success |-> "absent", error |-> TRUE] }

\* _execute_node of node n gets result document o from its tool; the
\* document is kept in `envelope`
NodeReturn(n, o) ==
    /\ TaskFinishEffect(n, o)
    /\ envelope' = Envelope(IF o.raised THEN "raise" ELSE "json", o.success, o.error, None)
    /\ UNCHANGED <<bvars, svars, evars, avars, user_request, step_number,
                   idempotency_keys>>

NextD ==
    \/ LoadPlan
    \/ ExecuteStart
    \/ Tick
    \/ LoopExit
    \/ LoopNoBatch
    \/ SleepReturn
    \/ LoopLaunch
    \/ \E n \in Ids, o \in ResultDocuments : NodeReturn(n, o)
    \/ \E n \in Ids : TaskCancelled(n)
    \/ WaitReturn
    \/ WaitTimeout
    \/ Finish

SpecD == InitD /\ [][NextD]_vars

\* _execute_node is started for node n: its tool is invoked
NodeInvoked(n) ==
    /\ n \in DOMAIN task
    /\ loads' = loads
    /\ task[n] = "none"
    /\ task'[n] = "running"

\* C23: in execute_plan no node's tool is invoked while the breaker of the
\* tool denies the request
C23_NodeConsultsBreaker ==
    [][\A n \in Ids : NodeInvoked(n) => ~BreakerDenies(breakers, nodes[n].tool, now)]_vars

(***************************************************************************)
(* SpecW: the breaker of SpecB over more than one window: the clock        *)
(* advances by three bucket lengths between the calls made on it.          *)
(***************************************************************************)
WindowClockSteps == {3 * bucket_len}

ClockAdvanceW(d) ==
    /\ now + d <= MaxWindowTime
    /\ now' = now + d
    /\ UNCHANGED <<vvars, dvars, rvars, avars, evars, lvars, svars, cvars>>

NextW ==
    \/ \E d \in WindowClockSteps : ClockAdvanceW(d)
    \/ Allow
    \/ \E ok \in BOOLEAN : OnResult(ok)

SpecW == InitB /\ [][NextW]_vars

\* get_metrics(): success_count and failure_count, the sums over all buckets
get_metrics(br) ==
    [success_count |-> sum_field(br.buckets, 1, "s"),
     failure_count |-> sum_field(br.buckets, 1, "f")]

\* every outcome of bucket b is older than window_seconds at time t: the
\* bucket was last reset more than a window and a bucket length ago
SlotElapsed(b, t) == t - b.t >= window_seconds + bucket_len

\* the buckets with the elapsed ones zeroed
within_window(bs, t) ==
    [k \in 1..Len(bs) |-> IF SlotElapsed(bs[k], t) THEN Bucket(0, 0, bs[k].t) ELSE bs[k]]

\* a call of on_result or allow on the breaker: a step that is not the clock's
RecordOrQuery == now' = now

\* C25: the window totals used for the trip decision and reported by
\* get_metrics count only outcomes recorded within the last window_seconds:
\* a bucket whose time slot has fully elapsed contributes zero
C25_WindowTotalsAreRecent ==
    [][RecordOrQuery =>
         get_metrics(This)' =
             get_metrics(Breaker(within_window(buckets', now'), state', open_since'))]_vars

\* _execute_node of node n has just parsed the result document of its tool
NodeReturned(n) ==
    /\ n \in DOMAIN task
    /\ loads' = loads
    /\ task[n] = "running"
    /\ task'[n] \in {"ok", "fail"}
    /\ envelope'.kind = "json"

\* the document carries no explicit failure flag and no "error" field
NoFailureFlagNoError(e) == e.success # "false" /\ ~e.error

\* C27: the DAG controller treats a tool result as a success exactly when the
\* result carries no explicit failure flag and no `error` field
C27_SuccessIffNoFlagNoError ==
    [][\A n \in Ids : NodeReturned(n) =>
           (task'[n] = "ok" <=> NoFailureFlagNoError(envelope'))]_vars

\* execute_plan computes the status of its summary and returns
Returns == pc = "finishing" /\ pc' = "done"

\* in-flight tasks receive cancel()
Cancels == loads' = loads /\ cancelled' # cancelled

\* C28 as stated: once the deadline has passed no node is dispatched, the run
\* returns with status timeout and the results so far, and no in-flight task
\* is cancelled
C28_AsStated ==
    [][expired => /\ \A n \in Ids : ~NodeInvoked(n)
                  /\ Returns => (status' = "timeout" /\ results' = results)
                  /\ ~Cancels]_vars

\* C28: once the deadline has passed no node is dispatched and the run
\* returns with status timeout and the results so far; in-flight tasks are
\* cancelled only by the processing of a node failure, never by the deadline
C28_DeadlineStopsDispatch ==
    [][/\ expired => /\ \A n \in Ids : ~NodeInvoked(n)
                     /\ Returns => (status' = "timeout" /\ results' = results)
       /\ Cancels => (~failed /\ failed')]_vars

\* the run has returned with status timeout and partial results while a task
\* launched before the deadline is still running
C28_Witness ==
    /\ pc = "done"
    /\ status = "timeout"
    /\ results # <<>>
    /\ cancelled = {}
    /\ \E n \in inflight : task[n] = "running"

\* nodes of the loaded plan that are ready and not yet dispatched: not
\* started, every dependency in the completed set
ReadyUndispatched ==
    {m \in DOMAIN nodes : /\ nodes[m].status \in {"pending", "ready"}
                          /\ deps_satisfied(nodes[m], completed)}

\* the ids of a set of nodes in ascending (step, tool, id) order
RECURSIVE by_priority(_, _)
by_priority(ns, S) ==
    IF S = {} THEN <<>>
    ELSE LET m == CHOOSE x \in S : \A y \in S \ {x} : PriorityLess(ns[x], ns[y])
         IN <<m>> \o by_priority(ns, S \ {m})

\* C29: nodes are offered for dispatch in ascending (step, tool, id) order:
\* when a node is dispatched every ready node not dispatched with it has a
\* larger (step, tool, id); what the loop is offered, the ready queue, is the
\* ready, not yet dispatched nodes of the plan for the completed set, in that
\* order
C29_DispatchInPriorityOrder ==
    /\ [][\A n \in Ids : NodeInvoked(n) =>
             \A m \in ReadyUndispatched :
                 task'[m] = "none" => PriorityLess(nodes[n], nodes[m])]_vars
    /\ []((pc = "loop" /\ ~failed) =>
             ready_queue = by_priority(nodes, ReadyUndispatched))

\* nodes have been dispatched while a ready node of larger (step, tool, id)
\* stays on the queue
C29_Witness ==
    /\ pc = "waiting"
    /\ Cardinality(inflight) > 1
    /\ \E m \in Range(ready_queue) :
          \A n \in inflight : task[n] = "running" /\ PriorityLess(nodes[n], nodes[m])

\* no node id is on the ready queue twice
NoDuplicates(q) == \A j, k \in 1..Len(q) : j # k => q[j] # q[k]

\* the task of node n has been created in this run
Dispatched(n) == n \in DOMAIN task /\ task[n] # "none"

\* C30: within one execute_plan run every node is dispatched at most once: a
\* node id is never on the ready queue twice, a dispatched node is never on
\* the ready queue again, and a task that was created is never created anew
C30_DispatchedAtMostOnce ==
    /\ [](NoDuplicates(ready_queue) /\ \A n \in Range(ready_queue) : ~Dispatched(n))
    /\ [][\A n \in Ids : (loads' = loads /\ Dispatched(n)) =>
             (Dispatched(n)' /\ (task'[n] = "running" => task[n] = "running"))]_vars

\* a node was put back on the ready queue behind in-flight nodes, and a node
\* dispatched earlier has completed and made the queue be updated
C30_Witness ==
    /\ pc = "loop"
    /\ completed # {}
    /\ inflight # {}
    /\ \E n \in Range(ready_queue) : ~is_parallel_safe(nodes[n].tool)

(***************************************************************************)
(* Further properties of the CircuitBreaker (SpecB).                       *)
(***************************************************************************)
\* allow() is refused at every whole second of the cooldown that starts at t
DeniedForCooldown(br, t) ==
    \A d \in 0..(cooldown_seconds - 1) : ~allow(br, t + d).ret

\* C32: a failure recorded in HALF_OPEN leaves the breaker OPEN with
\* open_since at the time of that record, so allow is refused for a further
\* full cooldown_seconds
C32_ProbeFailureReopens ==
    [][ (state = HALF_OPEN /\ Recorded /\ outcome' = "failure") =>
          /\ state' = OPEN
          /\ open_since' = now'
          /\ DeniedForCooldown(Breaker(buckets', state', open_since'), now') ]_vars

\* the breaker opened at time 0, admitted a probe after the cooldown, the
\* probe's failure was recorded and the next allow() was refused
C32_Witness ==
    /\ state = OPEN
    /\ outcome = "failure"
    /\ records = min_requests + 1
    /\ open_since >= cooldown_seconds
    /\ open_since = now
    /\ allowed = "false"

\* C40: recording a success never moves a CLOSED breaker to OPEN
C40_SuccessKeepsClosed ==
    [][ (state = CLOSED /\ Recorded /\ outcome' = "success") => state' = CLOSED ]_vars

(***************************************************************************)
(* Further properties of _execute_step_with_retry (SpecS).                 *)
(***************************************************************************)

\* a step execution starts and allow_request refuses it
BlockedStep ==
    /\ spc = "idle"
    /\ steps' = steps + 1
    /\ ~allow(get_breaker(breakers, tool_name', now), now).ret

\* C33: a step execution that allow_request refuses returns at once a failure
\* carrying E_CIRCUIT_OPEN: the tool is not invoked, nothing is retried and
\* no outcome is recorded on the tool's breaker.
C33_BlockedStepReturnsCircuitOpen ==
    [][ BlockedStep =>
          /\ spc' = "idle"
          /\ ~step_result'.success
          /\ step_result'.code = E_CIRCUIT_OPEN
          /\ step_result'.blocked
          /\ invocations' = 0
          /\ attempt' = 0
          /\ recorded' = 0
          /\ tool_name' \in DOMAIN breakers
          /\ breakers'[tool_name'] = breakers[tool_name'] ]_vars

\* a refused step execution of a tool whose breaker holds recorded failures
C33_Witness ==
    /\ spc = "idle"
    /\ step_result.blocked
    /\ step_result.code = E_CIRCUIT_OPEN
    /\ invocations = 0
    /\ recorded = 0
    /\ tool_name \in DOMAIN breakers
    /\ breakers[tool_name].state = OPEN

\* The step executions of one tool that has no cache, with the scheduling of
\* the event loop: an awaited tool call that can return does return, and an
\* awaited backoff sleep ends.
RetryCalls == { c \in StepCalls : c[1] = "add_task" }

\* the error code of add_task's own failure document
INTERNAL_ERROR == "INTERNAL_ERROR"

RetryOutcomes ==
    StepOutcomes \cup {[kind |-> "failure", code |-> INTERNAL_ERROR]}

NextT ==
    \/ \E d \in ClockSteps : ClockAdvanceS(d)
    \/ \E c \in RetryCalls : StepCall(c[1], c[2])
    \/ \E o \in RetryOutcomes : ToolReturn(o)
    \/ BackoffDone

SpecT ==
    /\ InitS
    /\ [][NextT]_vars
    /\ WF_vars(\E o \in RetryOutcomes : ToolReturn(o))
    /\ WF_vars(BackoffDone)

RetryableCodes == {E_TIMEOUT, E_RATE_LIMIT}

\* a step execution is under way: the tool call or a backoff is awaited
StepRunning == spc \in {"tool", "sleep"}

StepReturned == spc = "idle" /\ step_result # NoStepResult

PassesChecks(p) ==
    /\ SchemaValid(p)
    /\ UniqueIds(p)
    /\ RefsResolve(p)
    /\ ~HasCycle(p)

\* C39: validate_plan never returns E_STEP_ORDER: for every plan that passes
\* the schema, the id/reference checks and cycle detection, the topological
\* sort places all N nodes and the result is valid.
C39_NoStepOrderError ==
    Validated =>
        /\ E_STEP_ORDER \notin ErrorCodes(vresult)
        /\ PassesChecks(plan) =>
              /\ vresult.valid
              /\ Len(vresult.topo_order_ids) = Len(plan)
              /\ Range(vresult.topo_order_ids) = PlanIds(plan)
              /\ topo_sort(build_graph(plan)) = vresult.topo_order_ids

\* an accepted plan of three nodes in a chain, each after the one before
C39_Witness ==
    /\ Validated
    /\ PassesChecks(plan)
    /\ vresult.valid
    /\ Len(vresult.topo_order_ids) = 3
    /\ \E i, j, k \in 1..Len(plan) :
          /\ plan[j].id \in plan[i].after
          /\ plan[k].id \in plan[j].after

\* the number of entries of the errors list equal to e
RECURSIVE CountOf(_, _)
CountOf(errs, e) ==
    IF errs = <<>> THEN 0
    ELSE (IF Head(errs) = e THEN 1 ELSE 0) + CountOf(Tail(errs), e)

\* the occurrences of id x in the plan array
Occurrences(p, x) == {i \in 1..Len(p) : p[i].id = x}

\* C38: for a schema-valid plan, the errors of one validate_plan call hold
\* an E_DUP_ID entry for each repeated occurrence of an id (each occurrence
\* after the first) and an E_REF_UNKNOWN entry for each `after` entry of
\* each node that names an id no node has; with any such violation the plan
\* is rejected with these entries only.
C38_AllIdAndRefErrors ==
    (Validated /\ SchemaValid(plan)) =>
        /\ \A x \in PlanIds(plan) :
              CountOf(vresult.errors, Err(E_DUP_ID, x, "")) =
                 Cardinality(Occurrences(plan, x)) - 1
        /\ \A x \in PlanIds(plan) : \A d \in Ids \ PlanIds(plan) :
              CountOf(vresult.errors, Err(E_REF_UNKNOWN, x, d)) =
                 Cardinality({i \in Occurrences(plan, x) : d \in plan[i].after})
        /\ (~UniqueIds(plan) \/ ~RefsResolve(plan)) =>
              /\ ~vresult.valid
              /\ ErrorCodes(vresult) \subseteq {E_DUP_ID, E_REF_UNKNOWN}

\* a plan with a repeated id and, after it in the array, a reference to an
\* absent id: two violations of different kinds reported by one call
C38_Witness ==
    /\ Validated
    /\ SchemaValid(plan)
    /\ Len(vresult.errors) >= 2
    /\ vresult.errors[1].code = E_DUP_ID
    /\ vresult.errors[Len(vresult.errors)].code = E_REF_UNKNOWN

(***************************************************************************)
(* SpecK: ProductionToolRegistry._idempotency_keys as one key after the    *)
(* other is marked complete.  The keys are those of the steps 1, 2, 3, ... *)
(* of one request; generate_idempotency_key is taken as injective, and the *)
(* key of step n is written n, so a smaller key is an older one.           *)
(***************************************************************************)

\* the keys of a set from the oldest to the newest
age_order(keys) ==
    SelectSeq([i \in 1..MaxKeyMarks |-> i], LAMBDA i : i \in keys)

\* list(self._idempotency_keys): the order of the hash table, which for
\* string keys is unrelated to the order of insertion; the orders taken here
\* are the rotations of the age order, o being the rank of the first key
iteration_order(keys, o) ==
    LET ord == age_order(keys)
        n == Len(ord)
    IN [j \in 1..n |-> ord[((j - 1 + o) % n) + 1]]

\* mark_operation_complete when the set iterates in the order numbered o
mark_operation_complete_at(keys, key, o) ==
    LET all == keys \cup {key}
        old_keys == SubSeq(iteration_order(all, o), 1, PrunedIdempotencyKeys)
    IN IF Cardinality(all) > MaxIdempotencyKeys
       THEN all \ {old_keys[j] : j \in 1..Len(old_keys)}
       ELSE all

InitK ==
    /\ ValidatorOff
    /\ pc = "off"
    /\ DagOff
    /\ ExecutorOff
    /\ BreakerOff
    /\ StepOff
    /\ LegacyOff
    /\ AgentOff
    /\ CacheOff

\* the step numbered step_number + 1 succeeded: its key is marked complete
MarkOperationComplete(o) ==
    /\ step_number < MaxKeyMarks
    /\ step_number' = step_number + 1
    /\ idempotency_keys' =
          mark_operation_complete_at(idempotency_keys, step_number + 1, o)
    /\ UNCHANGED <<vvars, dvars, rvars, avars, evars, bvars, svars,
                   user_request, envelope>>

\* the ranks a set about to be pruned can start its iteration at
FirstRanks(keys) ==
    IF Cardinality(keys) >= MaxIdempotencyKeys
    THEN 0..Cardinality(keys)
    ELSE {0}

NextK == \E o \in FirstRanks(idempotency_keys) : MarkOperationComplete(o)

SpecK == InitK /\ [][NextK]_vars

\* the keys a step removed from the set it added the marked key to
Pruned == (idempotency_keys \cup {step_number'}) \ idempotency_keys'

\* C37: after mark_operation_complete returns, the set of completed keys
\* holds at most MaxIdempotencyKeys keys; the keys a prune removes are older
\* than every key it keeps, and the key just marked is kept.
C37_PrunesOldestKeepsMarked ==
    [][ step_number' = step_number + 1 =>
          /\ Cardinality(idempotency_keys') <= MaxIdempotencyKeys
          /\ step_number' \in idempotency_keys'
          /\ \A d \in Pruned : \A k \in idempotency_keys' : d < k ]_vars

(***************************************************************************)
(* SpecC: two coroutines of one event loop run                             *)
(* EnhancedPlannerExecutorAgent._execute_step_with_retry for the same      *)
(* request, step number, tool and input.  A coroutine runs alone from one  *)
(* await to the next; the awaits are the tool call and the backoff sleep.  *)
(* spc, attempt and step_result hold one value for each coroutine.         *)
(***************************************************************************)
Coroutines == {1, 2}

\* the logical step both coroutines execute
SameStep == <<"r1", 1, "add_task", <<Item("text", "x"), Item("extra", "y")>> >>

SameKey ==
    generate_idempotency_key(SameStep[1], SameStep[2], SameStep[3], SameStep[4])

InitC ==
    /\ ValidatorOff
    /\ pc = "off"
    /\ DagOff
    /\ ExecutorOff
    /\ BreakerOff
    /\ AgentOff
    /\ CacheOff
    /\ spc = [c \in Coroutines |-> "idle"]
    /\ attempt = [c \in Coroutines |-> 0]
    /\ step_result = [c \in Coroutines |->
                         LegacyResult(FALSE, "none", "none", FALSE, FALSE)]
    /\ user_request = SameStep[1]
    /\ step_number = SameStep[2]
    /\ tool_name = SameStep[3]
    /\ tool_input = SameStep[4]
    /\ idempotency_keys = {}
    /\ envelope = NoEnvelope
    /\ pure_cache = NoNodes
    /\ breakers = NoNodes
    /\ invocations = 0
    /\ recorded = 0
    /\ executed = 0
    /\ prior = "none"
    /\ steps = 0

\* coroutine c enters _execute_step_with_retry and runs to its first await
\* or to its return: breaker check, cache lookup, duplicate check, tool call
CoStepCall(c) ==
    /\ spc[c] = "idle"
    /\ LET a == allow(get_breaker(breakers, tool_name, now), now)
           cached_result == legacy_get_cached_result(pure_cache, tool_name, tool_input)
           idempotency_key == IF requires_idempotency_key(tool_name)
                              THEN SameKey ELSE None
       IN /\ breakers' = Put(breakers, tool_name, a.breaker)
          /\ IF ~a.ret
             THEN /\ step_result' = [step_result EXCEPT ![c] =
                        LegacyResult(FALSE, "error", "CIRCUIT_BREAKER_OPEN", FALSE, TRUE)]
                  /\ spc' = [spc EXCEPT ![c] = "returned"]
                  /\ invocations' = invocations
             ELSE IF cached_result # None
             THEN /\ step_result' = [step_result EXCEPT ![c] =
                        [LegacyResult(TRUE, cached_result, None, FALSE, FALSE)
                            EXCEPT !.cache_hit = TRUE]]
                  /\ spc' = [spc EXCEPT ![c] = "returned"]
                  /\ invocations' = invocations
             ELSE IF idempotency_key # None /\
                     is_duplicate_operation(idempotency_keys, idempotency_key)
             THEN /\ step_result' = [step_result EXCEPT ![c] =
                        LegacyResult(TRUE, "already completed", None, TRUE, FALSE)]
                  /\ spc' = [spc EXCEPT ![c] = "returned"]
                  /\ invocations' = invocations
             ELSE /\ step_result' = step_result
                  /\ spc' = [spc EXCEPT ![c] = "tool"]
                  /\ invocations' = invocations + 1
    /\ steps' = steps + 1
    /\ UNCHANGED <<vvars, dvars, rvars, avars, evars, bvars, lvars, tool_name,
                   tool_input, attempt, pure_cache, recorded, executed, prior>>

\* the tool call coroutine c awaits finishes with e, and c runs on to its
\* next await or to its return
CoToolReturn(c, e) ==
    /\ spc[c] = "tool"
    /\ envelope' = e
    /\ LET success == legacy_success(e)
           idempotency_key == IF requires_idempotency_key(tool_name)
                              THEN SameKey ELSE None
           retry == attempt[c] < max_retries /\
                    (e.kind = "raise" \/
                     (e.kind = "json" /\ ~success /\
                      e.error_code \in {"TIMEOUT", "RATE_LIMIT"}))
       IN /\ breakers' = IF e.kind = "invalid" THEN breakers
                         ELSE Put(breakers, tool_name,
                                  on_result(get_breaker(breakers, tool_name, now), now,
                                            e.kind = "json" /\ success))
          /\ recorded' = IF e.kind = "invalid" THEN recorded ELSE recorded + 1
          /\ idempotency_keys' \in
                IF e.kind = "json" /\ success /\ idempotency_key # None
                THEN mark_operation_complete(idempotency_keys, idempotency_key)
                ELSE {idempotency_keys}
          /\ executed' = IF e.kind = "json" /\ e.success = "true"
                         THEN executed + 1 ELSE executed
          /\ IF e.kind = "invalid"
             THEN /\ step_result' = [step_result EXCEPT ![c] =
                        LegacyResult(FALSE, "raw_result", None, FALSE, FALSE)]
                  /\ spc' = [spc EXCEPT ![c] = "returned"]
             ELSE IF e.kind = "json" /\ success
             THEN /\ step_result' = [step_result EXCEPT ![c] =
                        LegacyResult(TRUE, "result", None, FALSE, FALSE)]
                  /\ spc' = [spc EXCEPT ![c] = "returned"]
             ELSE IF retry
             THEN /\ step_result' = step_result
                  /\ spc' = [spc EXCEPT ![c] = "sleep"]
             ELSE /\ step_result' = [step_result EXCEPT ![c] =
                        LegacyResult(FALSE, "error",
                           IF e.kind = "raise" THEN "EXECUTION_EXCEPTION"
                           ELSE IF e.error_code = None THEN "UNKNOWN_ERROR"
                           ELSE e.error_code, FALSE, FALSE)]
                  /\ spc' = [spc EXCEPT ![c] = "returned"]
    /\ UNCHANGED <<vvars, dvars, rvars, avars, evars, bvars, tool_name, tool_input,
                   attempt, invocations, pure_cache, prior, steps,
                   user_request, step_number>>

\* the backoff sleep of coroutine c ends: `continue`, and the tool is called
\* again without a second duplicate check
CoBackoffDone(c) ==
    /\ spc[c] = "sleep"
    /\ spc' = [spc EXCEPT ![c] = "tool"]
    /\ attempt' = [attempt EXCEPT ![c] = @ + 1]
    /\ invocations' = invocations + 1
    /\ UNCHANGED <<vvars, dvars, rvars, avars, evars, bvars, lvars, tool_name,
                   tool_input, step_result, pure_cache, breakers, recorded,
                   executed, prior, steps>>

NextC ==
    \/ \E c \in Coroutines : CoStepCall(c)
    \/ \E c \in Coroutines : \E e \in LegacyOutcomes : CoToolReturn(c, e)
    \/ \E c \in Coroutines : CoBackoffDone(c)

SpecC == InitC /\ [][NextC]_vars

\* C31: over every interleaving of two concurrent executions of the same
\* logical step of a tool that requires an idempotency key, at most one call
\* of the tool runs to a reported success (`executed` counts the calls that
\* returned "success": true), and so the tool is invoked at most once with
\* effect.
C31_ToolRunsAtMostOnce ==
    requires_idempotency_key(tool_name) => executed <= 1

(***************************************************************************)
(* SpecP: the result caches of a tool registry under a clock: any sequence *)
(* of cache_result and get_cached_result calls on a ToolRegistry           *)
(* (core/registry.py) or on a ProductionToolRegistry                       *)
(* (legacy/production_tool_registry.py), both loaded from one document.    *)
(***************************************************************************)

\* the "tools" of the registry document: purity and cache_ttl_s of each tool
\* (a key the test registries leave out reads 0); foo_tool is not in it
cache_registry ==
    [t \in {"add_task", "complete_task", "calculate_percentage", "add_numbers",
            "list_tasks", "get_current_time"} |->
        CASE t = "add_task" -> [purity |-> "impure", cache_ttl_s |-> 0]
          [] t = "complete_task" -> [purity |-> "impure", cache_ttl_s |-> 2]
          [] t = "calculate_percentage" -> [purity |-> "pure", cache_ttl_s |-> 0]
          [] t = "add_numbers" -> [purity |-> "pure", cache_ttl_s |-> 86400]
          [] t = "list_tasks" -> [purity |-> "read_only", cache_ttl_s |-> 0]
          [] OTHER -> [purity |-> "read_only", cache_ttl_s |-> 2]]

CacheTools == DOMAIN cache_registry \cup {"foo_tool"}

\* get_tool_purity and get_cache_ttl of either registry on that document
tool_purity(tool) ==
    IF tool \in DOMAIN cache_registry THEN cache_registry[tool].purity ELSE "impure"

cache_ttl(tool) ==
    IF tool \in DOMAIN cache_registry THEN cache_registry[tool].cache_ttl_s ELSE 0

\* dict.pop(key, None)
Pop(f, k) == [x \in DOMAIN f \ {k} |-> f[x]]

\* the caches of a registry
Caches(pure, read, ts) == [pure |-> pure, read |-> read, ts |-> ts]

\* ToolRegistry.get_cached_result at time t: the value returned
core_get_cached_result(c, tool, inp, t) ==
    LET purity == tool_purity(tool)
        cache_key == create_cache_key(tool, inp)
    IN IF purity = "pure"
       THEN (IF cache_key \in DOMAIN c.pure THEN c.pure[cache_key] ELSE None)
       ELSE IF purity = "read_only"
       THEN (IF cache_key \in DOMAIN c.read /\
                t - c.read[cache_key].timestamp < cache_ttl(tool)
             THEN c.read[cache_key].result ELSE None)
       ELSE None

\* ToolRegistry.cache_result at time t: the caches after the call
core_cache_result(c, tool, inp, result, t) ==
    LET purity == tool_purity(tool)
        cache_key == create_cache_key(tool, inp)
    IN IF purity = "pure"
       THEN [c EXCEPT !.pure = Put(@, cache_key, result)]
       ELSE IF purity = "read_only"
       THEN [c EXCEPT !.read = Put(@, cache_key,
                                   [result |-> result, timestamp |-> t])]
       ELSE c

\* ProductionToolRegistry.get_cached_result at time t: the value returned and
\* the caches after the call
production_get_cached_result(c, tool, inp, t) ==
    LET purity == tool_purity(tool)
        ttl == cache_ttl(tool)
        cache_key == create_cache_key(tool, inp)
        cache == IF purity = "pure" THEN c.pure ELSE c.read
        cached_time == IF cache_key \in DOMAIN c.ts THEN c.ts[cache_key] ELSE 0
        age == t - cached_time
    IN IF ttl = 0 \/ purity \notin {"pure", "read_only"}
       THEN [ret |-> None, caches |-> c]
       ELSE IF cache_key \notin DOMAIN cache
       THEN [ret |-> None, caches |-> c]
       ELSE IF age <= ttl
       THEN [ret |-> cache[cache_key], caches |-> c]
       ELSE [ret |-> None,
             caches |-> IF purity = "pure"
                        THEN Caches(Pop(c.pure, cache_key), c.read, Pop(c.ts, cache_key))
                        ELSE Caches(c.pure, Pop(c.read, cache_key), Pop(c.ts, cache_key))]

max_cache_size_pure == 10000   \* max_cache_size of the pure cache
max_cache_size_read == 1000    \* max_cache_size of the read-only cache

\* the memory management of ProductionToolRegistry.cache_result: above
\* max_cache_size keys, the max_cache_size // 2 keys with the oldest
\* timestamps are removed, whichever those are among equal timestamps; the
\* sets of keys that can be removed
removed_oldest(cache, ts, max_cache_size) ==
    IF Cardinality(DOMAIN cache) <= max_cache_size THEN {{}}
    ELSE { E \in SUBSET DOMAIN cache :
             /\ Cardinality(E) = max_cache_size \div 2
             /\ \A d \in E : \A k \in DOMAIN cache \ E : ts[d] <= ts[k] }

\* ProductionToolRegistry.cache_result at time t: the caches that can result
production_cache_result(c, tool, inp, result, t) ==
    LET purity == tool_purity(tool)
        cache_key == create_cache_key(tool, inp)
        ts == Put(c.ts, cache_key, t)
        pure == Put(c.pure, cache_key, result)
        read == Put(c.read, cache_key, result)
    IN IF cache_ttl(tool) = 0 \/ purity \notin {"pure", "read_only"}
       THEN {c}
       ELSE IF purity = "pure"
       THEN { Caches([k \in DOMAIN pure \ E |-> pure[k]], c.read,
                     [k \in DOMAIN ts \ E |-> ts[k]]) :
                E \in removed_oldest(pure, ts, max_cache_size_pure) }
       ELSE { Caches(c.pure, [k \in DOMAIN read \ E |-> read[k]],
                     [k \in DOMAIN ts \ E |-> ts[k]]) :
                E \in removed_oldest(read, ts, max_cache_size_read) }

\* the input of every call: one input per tool
CacheInput == <<Item("text", "x")>>

TheCaches == Caches(pure_cache, read_cache, cache_timestamps)

InitP ==
    /\ ValidatorOff
    /\ pc = "off"
    /\ DagOff
    /\ ExecutorOff
    /\ BreakerOff
    /\ StepOff
    /\ LegacyOff
    /\ AgentOff
    /\ registry_class \in {"ToolRegistry", "ProductionToolRegistry"}
    /\ read_cache = NoNodes
    /\ cache_timestamps = NoNodes
    /\ cache_op = "none"
    /\ cache_ret = None

ClockAdvanceP ==
    /\ now < MaxCacheTime
    /\ now' = now + 1
    /\ cache_op' = "none"
    /\ UNCHANGED <<plan, vresult, vphase, dvars, rvars, avars, evars, lvars, cvars,
                   svars, registry_class, read_cache, cache_timestamps, cache_ret>>

\* get_cached_result(tool, CacheInput)
GetCachedResult(tool) ==
    /\ LET r == IF registry_class = "ToolRegistry"
                THEN [ret |-> core_get_cached_result(TheCaches, tool, CacheInput, now),
                      caches |-> TheCaches]
                ELSE production_get_cached_result(TheCaches, tool, CacheInput, now)
       IN /\ cache_ret' = r.ret
          /\ pure_cache' = r.caches.pure
          /\ read_cache' = r.caches.read
          /\ cache_timestamps' = r.caches.ts
    /\ cache_op' = "get"
    /\ tool_name' = tool
    /\ tool_input' = CacheInput
    /\ UNCHANGED <<plan, vresult, vphase, dvars, rvars, avars, evars, lvars, bvars,
                   registry_class, spc, attempt, step_result, breakers,
                   invocations, recorded, executed, prior, steps>>

\* cache_result(tool, CacheInput, result), result being the tool's payload
CacheResult(tool) ==
    /\ \E c \in IF registry_class = "ToolRegistry"
                THEN {core_cache_result(TheCaches, tool, CacheInput,
                                        payload_of(tool, CacheInput), now)}
                ELSE production_cache_result(TheCaches, tool, CacheInput,
                                             payload_of(tool, CacheInput), now) :
          /\ pure_cache' = c.pure
          /\ read_cache' = c.read
          /\ cache_timestamps' = c.ts
    /\ cache_op' = "put"
    /\ cache_ret' = None
    /\ tool_name' = tool
    /\ tool_input' = CacheInput
    /\ UNCHANGED <<plan, vresult, vphase, dvars, rvars, avars, evars, lvars, bvars,
                   registry_class, spc, attempt, step_result, breakers,
                   invocations, recorded, executed, prior, steps>>

NextP ==
    \/ ClockAdvanceP
    \/ \E tool \in CacheTools : GetCachedResult(tool)
    \/ \E tool \in CacheTools : CacheResult(tool)

SpecP == InitP /\ [][NextP]_vars

\* the tools the caching policy leaves out: impure, unregistered, or with a
\* cache_ttl_s of 0
Uncached(tool) ==
    \/ tool \notin DOMAIN cache_registry
    \/ tool_purity(tool) = "impure"
    \/ cache_ttl(tool) = 0

\* C35: get_cached_result returns no entry for an impure tool, for an
\* unregistered tool and for a tool whose cache_ttl_s is 0, and cache_result
\* for such a tool changes neither the pure store nor the read-only store.
C35_NothingCachedWithoutPolicy ==
    [][ /\ (cache_op' = "get" /\ Uncached(tool_name')) => cache_ret' = None
        /\ (cache_op' = "put" /\ Uncached(tool_name')) =>
              /\ pure_cache' = pure_cache
              /\ read_cache' = read_cache ]_vars

\* the time the read-only entry of a key was stored
entry_timestamp(cache_key) ==
    IF registry_class = "ToolRegistry" THEN read_cache[cache_key].timestamp
    ELSE cache_timestamps[cache_key]

\* C36: get_cached_result returns a read_only entry only while its age is
\* within the tool's cache_ttl_s, and a lookup that finds the entry expired
\* returns a miss and removes the entry from the read-only store.
C36_ReadOnlyEntryExpires ==
    [][ (cache_op' = "get" /\ tool_purity(tool_name') = "read_only") =>
          LET cache_key == create_cache_key(tool_name', tool_input')
              ttl == cache_ttl(tool_name')
          IN /\ cache_ret' # None =>
                   /\ cache_key \in DOMAIN read_cache
                   /\ now - entry_timestamp(cache_key) <= ttl
             /\ (cache_key \in DOMAIN read_cache /\
                 now - entry_timestamp(cache_key) > ttl) =>
                   /\ cache_ret' = None
                   /\ cache_key \notin DOMAIN read_cache' ]_vars

====
